---- MODULE Spec2Model ----
(***************************************************************************)
(* Quartalsreport: budget resolution, reallocation and revenue formulas    *)
(* of webapp/report_generator.py.                                          *)
(*                                                                         *)
(* Text values (project names, work-package names) are modelled as tuples  *)
(* of whitespace-separated tokens: "1234 Bau" is <<"1234", "Bau">>.        *)
(* str.split()[0] is then Head, a substring test for a marker such as      *)
(* "(p)" is a test for the token.  Hours and money are integers; the       *)
(* master data below is chosen so that every rate (budget / hours) is an   *)
(* exact quotient.                                                         *)
(*                                                                         *)
(* The workbook is modelled as a formula graph: literal cells written by   *)
(* build_quarterly_report are state, formula cells are operators over the  *)
(* state that evaluate the formula text the code writes.                   *)
(***************************************************************************)
EXTENDS Integers, Sequences, FiniteSets, TLC

\* ------------------------------------------------------------------ bounds
MaxHours == 2
MaxAdj == 3
MaxEdits == 2
MaxTransferEdits == 3
MaxRows == 3
MaxJobs == 2
MaxRequests == 7

\* ------------------------------------------------------- generic helpers
Max2(a, b) == IF a >= b THEN a ELSE b
Min2(a, b) == IF a <= b THEN a ELSE b

MaxOfSet(S) == CHOOSE x \in S : \A y \in S : y <= x

RECURSIVE SumOver(_, _)
\* sum of f[x] for x in S, f a function
SumOver(S, f) ==
    IF S = {} THEN 0
    ELSE LET x == CHOOSE y \in S : TRUE
         IN f[x] + SumOver(S \ {x}, f)

SeqToSet(s) == {s[i] : i \in 1..Len(s)}

\* --------------------------------------------------------- program data
None == <<"None">>
NoRate == -1
SubScanWindow == 80

Roles == {"SV", "CAD", "ADM", "Pauschale", "-"}
BillingTypes == {"Pauschale", "Nachweis", "Unbekannt"}

BulletTokens == {"\\u2022", "*"}

RECURSIVE StripLead(_)
StripLead(s) ==
    IF s # <<>> /\ Head(s) = "-" THEN StripLead(Tail(s)) ELSE s

\* norm_ms: remove bullet glyphs, then leading dashes and whitespace
norm_ms(text) ==
    IF text = None THEN <<>>
    ELSE StripLead(SelectSeq(text, LAMBDA t : t \notin BulletTokens))

HasToken(name, toks) == \E i \in 1..Len(name) : name[i] \in toks

\* get_milestone_type: "quartal" occurs in the lower-cased name
QuartalTokens == {"Quartal", "4h/Quartal", "Quartalsbericht"}
get_milestone_type(name) ==
    IF name = None THEN "monthly"
    ELSE IF HasToken(name, QuartalTokens) THEN "quarterly" ELSE "monthly"

\* a prefix test that never recognises an internal project
is_bonus_project_never(name) == FALSE

\* is_bonus_project: the name starts with "0000"
is_bonus_project(name) ==
    IF name = None \/ name = <<>> THEN FALSE ELSE Head(name) = "0000"

\* is_nachtrag_package: "nat" or "nachtrag" occurs in the lower-cased name
NachtragTokens == {"NAT", "Nat", "Nachtrag"}
is_nachtrag_package(name) ==
    IF name = None THEN FALSE ELSE HasToken(name, NachtragTokens)

\* detect_billing_type
detect_billing_type(arbeitspaket, honorarbereich, force) ==
    IF ~force /\ honorarbereich # "X" THEN "Unbekannt"
    ELSE IF arbeitspaket = None THEN "Unbekannt"
    ELSE IF HasToken(arbeitspaket, {"(p)", "(P)"}) THEN "Pauschale"
    ELSE IF HasToken(arbeitspaket, {"(aN)", "(an)", "(a.N.)", "(a.n.)"})
         THEN "Nachweis"
    ELSE "Unbekannt"

\* _project_keys / _proj_keys_for_lookup: full name, then its first token
_proj_keys_for_lookup(name) ==
    IF name = None \/ name = <<>> THEN <<>>
    ELSE IF <<Head(name)>> = name THEN <<name>>
    ELSE <<name, <<Head(name)>> >>

\* the position marker "'   SV" etc. in a sub-row's work-package name
HasMarker(ap, pos) ==
    \E i \in 1..(Len(ap) - 1) : ap[i] = "'" /\ ap[i + 1] = pos

PositionOf(ap) ==
    IF HasMarker(ap, "SV") THEN "SV"
    ELSE IF HasMarker(ap, "CAD") THEN "CAD"
    ELSE IF HasMarker(ap, "ADM") THEN "ADM"
    ELSE ""

\* ------------------------------------------------------ the budget master
Proj1 == <<"1234", "Bau">>
ProjInt == <<"0000", "Intern">>

MsLump == <<"(p)", "1", "Planung">>
MsHourly == <<"(aN)", "2", "Beratung">>
MsOpen == <<"3", "Sonstiges">>
MsSubRaw == <<"*", "1.1", "Entwurf">>
MsSub == <<"1.1", "Entwurf">>
MsShared == <<"Besprechung">>
MsForeign == <<"9", "Fremd">>
MsIntern ==
    <<"Einarbeitung", "neuer", "Mitarbeiter", "(max.", "8h/Monat", "pro", "MA)">>
MsQuarter == <<"Messeauftritt", "(max.", "4h/Quartal", "pro", "MA)">>
MsQuarterOpen == <<"Quartalsbericht">>

MRow(p, ap, x, soll, ist, honorar, budget) ==
    [Projekte |-> p, Arbeitspaket |-> ap, Honorarbereich |-> x,
     SollstundenBudget |-> soll, Iststunden |-> ist,
     Sollhonorar |-> honorar, Budget |-> budget, VerrechneteHonorare |-> 0]

Master1 ==
    << MRow(Proj1, MsLump, "X", 4, 2, 8, 0),
       MRow(Proj1, <<"'", "SV">>, "", 2, 1, 0, 6),
       MRow(Proj1, MsSubRaw, "", 2, 1, 0, 0),
       MRow(Proj1, MsShared, "", 0, 0, 0, 0),
       MRow(Proj1, MsHourly, "X", 0, 0, 0, 0),
       MRow(Proj1, <<"'", "SV">>, "", 2, 0, 0, 4),
       MRow(Proj1, <<"'", "CAD">>, "", 2, 0, 0, 2),
       MRow(Proj1, MsShared, "", 0, 0, 0, 0),
       MRow(Proj1, MsOpen, "X", 2, 0, 4, 0),
       MRow(Proj1, <<"'", "SV">>, "", 2, 0, 0, 2),
       MRow(ProjInt, MsIntern, "", 0, 0, 0, 0) >>

Masters == {Master1}

\* ------------------------------------------------- load_csv_projects
\* rows with a work package other than "-" take part
IsMsRow(r) == r.Arbeitspaket # <<>> /\ r.Arbeitspaket # <<"-">>

\* df_csv: Soll and Ist summed per (Projekte, Meilenstein)
CsvIdx(csv, p, ms) ==
    {i \in 1..Len(csv) : /\ IsMsRow(csv[i])
                         /\ csv[i].Projekte = p
                         /\ norm_ms(csv[i].Arbeitspaket) = ms}

load_csv_projects(csv) ==
    LET groups == {<<csv[i].Projekte, norm_ms(csv[i].Arbeitspaket)>> :
                      i \in {j \in 1..Len(csv) : IsMsRow(csv[j])}}
    IN [g \in groups |->
          [Soll |-> SumOver(CsvIdx(csv, g[1], g[2]),
                            [i \in 1..Len(csv) |-> csv[i].SollstundenBudget]),
           Ist |-> SumOver(CsvIdx(csv, g[1], g[2]),
                           [i \in 1..Len(csv) |-> csv[i].Iststunden])]]

\* ------------------------------------------------ load_csv_budget_data
\* first loop: {(project key, milestone) -> set of parent milestones},
\* kept as a set of triples <<key, milestone, parent>>
RECURSIVE ParentLoop(_, _, _, _, _)
ParentLoop(csv, i, current_project, current_parent_norm, acc) ==
    IF i > Len(csv) THEN acc
    ELSE
      LET r == csv[i]
          projekt == r.Projekte
          parent0 == IF projekt # current_project THEN None
                     ELSE current_parent_norm
          ms_norm_value == norm_ms(r.Arbeitspaket)
          keys == SeqToSet(_proj_keys_for_lookup(projekt))
      IN IF ~IsMsRow(r)
           THEN ParentLoop(csv, i + 1, projekt, None, acc)
         ELSE IF ms_norm_value = <<>>
           THEN ParentLoop(csv, i + 1, projekt, parent0, acc)
         ELSE IF r.Honorarbereich = "X"
           THEN ParentLoop(csv, i + 1, projekt, ms_norm_value,
                    acc \cup {<<k, ms_norm_value, ms_norm_value>> : k \in keys})
         ELSE IF parent0 # None
           THEN ParentLoop(csv, i + 1, projekt, parent0,
                    acc \cup {<<k, ms_norm_value, parent0>> : k \in keys})
         ELSE ParentLoop(csv, i + 1, projekt, parent0, acc)

\* rows carrying the billed-item marker
mask_obermeilenstein(csv, i) ==
    csv[i].Honorarbereich = "X" /\ IsMsRow(csv[i])

\* the sub-rows scanned after parent row idx: up to the next billed row,
\* within the scan window
SubIdx(csv, idx) ==
    LET last == Min2(idx + SubScanWindow - 1, Len(csv))
    IN {j \in (idx + 1)..last :
          /\ IsMsRow(csv[j])
          /\ \A k \in (idx + 1)..j :
                ~(IsMsRow(csv[k]) /\ csv[k].Honorarbereich = "X")}

total_sub_sollstunden(csv, idx) ==
    SumOver({j \in SubIdx(csv, idx) : csv[j].SollstundenBudget > 0},
            [j \in 1..Len(csv) |-> csv[j].SollstundenBudget])

\* rate of a position: budget / hours of the last matching sub-row
SubRate(csv, idx, pos) ==
    LET hit == {j \in SubIdx(csv, idx) :
                  PositionOf(csv[j].Arbeitspaket) = pos
                  /\ csv[j].SollstundenBudget > 0}
    IN IF hit = {} THEN NoRate
       ELSE LET j == MaxOfSet(hit)
            IN csv[j].Budget \div csv[j].SollstundenBudget

BudgetRec(projekt, ober, ober_norm, art, gesamt, abger, soll, ist, sv, cad, adm) ==
    [Projekt |-> projekt, Obermeilenstein |-> ober,
     Obermeilenstein_norm |-> ober_norm, Abrechnungsart |-> art,
     Gesamtbudget |-> gesamt, Abgerechnet |-> abger,
     Sollstunden |-> soll, Iststunden |-> ist,
     Stundensatz_SV |-> sv, Stundensatz_CAD |-> cad, Stundensatz_ADM |-> adm]

\* addendum sub-items of parent row idx, emitted as records of their own
RECURSIVE NachtragLoop(_, _, _, _, _)
NachtragLoop(csv, idx, todo, billing_type, acc) ==
    IF todo = {} THEN acc
    ELSE
      LET j == CHOOSE x \in todo : \A y \in todo : x <= y
          sub == csv[j]
          sub_sollhonor == IF sub.Budget # 0 THEN sub.Budget
                           ELSE sub.Sollhonorar
          sub_norm == norm_ms(sub.Arbeitspaket)
          sub_key == <<csv[idx].Projekte, sub_norm>>
          forced == detect_billing_type(sub.Arbeitspaket, "X", TRUE)
          sub_billing == IF forced = "Unbekannt" THEN billing_type ELSE forced
          default_rate == IF sub.SollstundenBudget > 0
                          THEN sub_sollhonor \div sub.SollstundenBudget
                          ELSE NoRate
          rest == todo \ {j}
      IN IF ~is_nachtrag_package(sub.Arbeitspaket) \/ sub_sollhonor = 0
              \/ sub_key \in acc.added
           THEN NachtragLoop(csv, idx, rest, billing_type, acc)
         ELSE NachtragLoop(csv, idx, rest, billing_type,
                [rows |-> Append(acc.rows,
                            BudgetRec(csv[idx].Projekte, sub.Arbeitspaket,
                                      sub_norm, sub_billing, sub_sollhonor,
                                      sub.VerrechneteHonorare,
                                      sub.SollstundenBudget, sub.Iststunden,
                                      default_rate, default_rate, default_rate)),
                 added |-> acc.added \cup {sub_key},
                 parents |-> acc.parents \cup
                    {<<k, sub_norm, sub_norm>> :
                        k \in SeqToSet(_proj_keys_for_lookup(csv[idx].Projekte))}])

\* second loop: one record per billed parent row
RECURSIVE BudgetLoop(_, _, _)
BudgetLoop(csv, idx, acc) ==
    IF idx > Len(csv) THEN acc
    ELSE IF ~mask_obermeilenstein(csv, idx) THEN BudgetLoop(csv, idx + 1, acc)
    ELSE
      LET row == csv[idx]
          ober_norm == norm_ms(row.Arbeitspaket)
          billing_type == detect_billing_type(row.Arbeitspaket,
                                              row.Honorarbereich, FALSE)
          sollhonor == row.Sollhonorar
          sollstunden == row.SollstundenBudget
          acc1 == NachtragLoop(csv, idx, SubIdx(csv, idx), billing_type, acc)
          lump == billing_type = "Pauschale" /\ sollstunden > 0
          default_rate == IF lump THEN sollhonor \div sollstunden ELSE NoRate
          rate(pos) == IF SubRate(csv, idx, pos) = NoRate /\ lump
                       THEN default_rate ELSE SubRate(csv, idx, pos)
          sub_total == total_sub_sollstunden(csv, idx)
          effective_sollstunden == IF sub_total > 0 THEN sub_total
                                   ELSE sollstunden
          main_key == <<row.Projekte, ober_norm>>
      IN IF main_key \in acc1.added THEN BudgetLoop(csv, idx + 1, acc1)
         ELSE BudgetLoop(csv, idx + 1,
                [rows |-> Append(acc1.rows,
                            BudgetRec(row.Projekte, row.Arbeitspaket, ober_norm,
                                      billing_type, sollhonor,
                                      row.VerrechneteHonorare,
                                      effective_sollstunden, row.Iststunden,
                                      rate("SV"), rate("CAD"), rate("ADM"))),
                 added |-> acc1.added \cup {main_key},
                 parents |-> acc1.parents])

\* load_csv_budget_data: (df_budget, milestone_parent_map); the _LookupId of
\* a record is its index in df_budget
load_csv_budget_data(csv) ==
    LET res == BudgetLoop(csv, 1,
                 [rows |-> <<>>, added |-> {},
                  parents |-> ParentLoop(csv, 1, None, None, {})])
    IN [df_budget |-> res.rows, milestone_parent_map |-> res.parents]

\* ------------------------------------------------- fixed internal budgets
MONTHLY_BUDGETS ==
    (MsIntern :> 8)
    @@ (<<"Angebote-Ausschreibungen-Kalkulationen", "(max.", "8h/Monat",
          "pro", "MA)">> :> 8)
    @@ (<<"Erstellung", "Vorlagen", "(übergreifend)", "(max.", "8h/Monat",
          "pro", "MA)">> :> 8)

QUARTERLY_BUDGETS ==
    (<<"Firmenveranstaltungen", "(max.", "4h/Quartal", "pro", "MA)">> :> 4)
    @@ (<<"Vorträge,", "Repräsentation", "(übergreifend)", "(max.",
          "4h/Quartal", "pro", "MA)">> :> 4)
    @@ (<<"Messeauftritt", "(max.", "4h/Quartal", "pro", "MA)">> :> 4)

\* extract_budget_from_name: <<hours, unit>> of a "<N>h/Monat" or
\* "<N>h/Quartal" token, <<0, "">> when the name has none
extract_budget_from_name(name) ==
    IF name = None THEN <<0, "">>
    ELSE IF HasToken(name, {"8h/Monat"}) THEN <<8, "monat">>
    ELSE IF HasToken(name, {"4h/Quartal"}) THEN <<4, "quartal">>
    ELSE <<0, "">>

\* ------------------------------------------------------------------ state
AllEmployees == <<"Anna", "Ben", "Cara">>
EmployeeSet == SeqToSet(AllEmployees)

\* two staff names that agree in their first 31 characters
LongNames ==
    <<"Maria-Magdalena Freifrau von Hohenstein",
      "Maria-Magdalena Freifrau von Hohenzollern">>
QuarterMonths == <<1, 2, 3>>

VARIABLES
    csv_master,            \* the budget master rows (input file)
    df_quarter,            \* time entries of the quarter:
                           \*   <<staff_name, proj_norm, ms_norm, period>> -> hours
    pc,                    \* "load", "build", "second_pass", "done"
    df_csv,                \* load_csv_projects result
    df_budget,             \* budget records, index = _LookupId
    milestone_parent_map,  \* set of <<project key, milestone, parent>>
    months,                \* months of the selected quarter, ascending
    built,                 \* employees whose sheet the first pass has built
    filled,                \* employees whose sheet the second pass has filled
    mrow,                  \* monthly data rows: slot -> literal cells, formulas
    qrow,                  \* quarterly rows: <<emp, proj, ms>> -> cells
    revenue_cells_by_key,  \* <<proj, ms, month>> -> sequence of row refs
    revenue_cells_by_key_q_all,  \* <<proj, ms>> -> sequence of row refs
    position,              \* cell B2 of each employee sheet
    adjustment,            \* column H of each monthly data row
    assign,                \* column J of each monthly data row
    budget_sheet_C,        \* column C (Abrechnungsart) of the budget overview
    edits,                 \* number of cell edits made after generation
    progress_calls,        \* the percent values passed to progress_cb so far
    xml_rows,              \* the <row> elements of the XML export (input file)
    requested_quarter,     \* the quarter asked for, or None
    df_xml,                \* load_xml_times result: the rows kept
    target_quarter,        \* QuarterSelection.period
    error,                 \* the message of the exception raised, or None
    jobs,                  \* the Job objects created: id -> status, result
    job_store,             \* ids of the jobs the store holds
    pending_jobs,          \* ids waiting, in submission order
    job_queue,             \* the queue the worker reads
    worker_task,           \* where the worker stands, and its local job
    output_dir,            \* what each job directory holds on disk
    deleting,              \* delete requests waiting for queue_lock
    response,              \* the last HTTP response: <<handler, id, status>>
    generated,             \* ids handed to generate_quarterly_report, in order
    _admin_rate,           \* ip -> times of failed admin logins in the window
    monotonic              \* time.monotonic(), in seconds

vars == <<csv_master, df_quarter, pc, df_csv, df_budget, milestone_parent_map,
          months, built, filled, mrow, qrow, revenue_cells_by_key,
          revenue_cells_by_key_q_all, position, adjustment, assign,
          budget_sheet_C, edits, progress_calls, xml_rows,
          requested_quarter, df_xml, target_quarter, error, jobs, job_store,
          pending_jobs, job_queue, worker_task, output_dir, deleting,
          response, generated, _admin_rate, monotonic>>

inputs == <<csv_master, df_quarter>>
loaded == <<df_csv, df_budget, milestone_parent_map, months>>
sheets == <<mrow, qrow, revenue_cells_by_key, revenue_cells_by_key_q_all>>
cells == <<position, adjustment, assign, budget_sheet_C, edits>>
intake == <<xml_rows, requested_quarter, df_xml, target_quarter, error>>
server == <<jobs, job_store, pending_jobs, job_queue, worker_task,
            output_dir, deleting, response, generated>>
limiter == <<_admin_rate, monotonic>>
web == <<server, limiter>>

Slots == DOMAIN df_quarter

\* employees = sorted(df_quarter["staff_name"].unique())
employees ==
    SelectSeq(AllEmployees \o LongNames, LAMBDA e : \E s \in Slots : s[1] = e)

\* project_milestone_employees[key]: who logged time on the key
project_milestone_employees(key) ==
    {s[1] : s \in {t \in Slots : <<t[2], t[3], t[4]>> = key}}

HoursOf == [s \in Slots |-> df_quarter[s]]

\* the hours of the month itself counted among the later hours
future_hours_from_month(proj, ms, month) ==
    SumOver({s \in Slots : s[2] = proj /\ s[3] = ms /\ s[4] >= month}, HoursOf)

\* no backward calculation: every month shows the master's figure
future_hours_none(proj, ms, month) == 0

\* hours logged by all employees after the month (backward calculation)
future_hours_all_employees(proj, ms, month) ==
    SumOver({s \in Slots : s[2] = proj /\ s[3] = ms /\ s[4] > month}, HoursOf)

\* the hours of the month alone
cum_hours_month_only(emp, proj, ms, month) ==
    SumOver({s \in Slots : s[1] = emp /\ s[2] = proj /\ s[3] = ms
                           /\ s[4] = month}, HoursOf)

\* hours of one employee from the start of the quarter through the month
cum_hours(emp, proj, ms, month) ==
    SumOver({s \in Slots : s[1] = emp /\ s[2] = proj /\ s[3] = ms
                           /\ s[4] <= month}, HoursOf)

quarter_hours(emp, proj, ms) ==
    SumOver({s \in Slots : s[1] = emp /\ s[2] = proj /\ s[3] = ms}, HoursOf)

\* ----------------------------------------------------- budget resolution
LookupIds == 1..Len(df_budget)

\* budget_lookup[(key, ober_norm)]: a later record overwrites an earlier
\* one; 0 when the key is absent (the dict holds no such key)
budget_lookup(key, ms) ==
    LET hit == {i \in LookupIds :
                  /\ key \in SeqToSet(_proj_keys_for_lookup(df_budget[i].Projekt))
                  /\ df_budget[i].Obermeilenstein_norm = ms}
    IN IF hit = {} THEN 0 ELSE MaxOfSet(hit)

\* lookup_id_map[(key, ober_norm)]: filled after the key loop, hence only
\* for the last key of each record's project
lookup_id_map(key, ms) ==
    LET lastkey(i) ==
            LET ks == _proj_keys_for_lookup(df_budget[i].Projekt)
            IN ks[Len(ks)]
        hit == {i \in LookupIds :
                  /\ lastkey(i) = key
                  /\ df_budget[i].Obermeilenstein_norm = ms}
    IN IF hit = {} THEN 0 ELSE MaxOfSet(hit)

Parents(key, ms) ==
    {t[3] : t \in {u \in milestone_parent_map : u[1] = key /\ u[2] = ms}}

\* the first candidate of a sequence that budget_lookup holds, 0 if none
RECURSIVE FirstHit(_)
FirstHit(candidates) ==
    IF candidates = <<>> THEN 0
    ELSE LET c == Head(candidates)
         IN IF budget_lookup(c[1], c[2]) # 0 THEN budget_lookup(c[1], c[2])
            ELSE FirstHit(Tail(candidates))

RECURSIVE ResolveCandidates(_, _)
ResolveCandidates(proj_variants, ms) ==
    IF proj_variants = <<>> THEN <<>>
    ELSE LET key == Head(proj_variants)
             parents == Parents(key, ms)
             own == << <<key, ms>> >>
             viaParent == IF Cardinality(parents) = 1
                          THEN << <<key, CHOOSE x \in parents : TRUE>> >>
                          ELSE <<>>
         IN own \o viaParent \o ResolveCandidates(Tail(proj_variants), ms)

\* _resolve_budget_data: the _LookupId of the record found, 0 for None
_resolve_budget_data(proj_value, ms_value) ==
    IF proj_value = <<>> \/ norm_ms(ms_value) = <<>> THEN 0
    ELSE FirstHit(ResolveCandidates(_proj_keys_for_lookup(proj_value),
                                    norm_ms(ms_value)))

\* Python's order of the work-package names (sorted(parents)[0])
NameOrder ==
    << <<"'", "CAD">>, <<"'", "SV">>, MsHourly, MsLump, MsSub, MsOpen,
       MsForeign, MsShared, MsIntern>>
NameRank(n) == CHOOSE i \in 1..Len(NameOrder) : NameOrder[i] = n
SortedFirst(S) == CHOOSE x \in S : \A y \in S : NameRank(x) <= NameRank(y)

RECURSIVE FirstId(_, _)
FirstId(proj_variants, ms) ==
    IF proj_variants = <<>> THEN 0
    ELSE IF lookup_id_map(Head(proj_variants), ms) # 0
         THEN lookup_id_map(Head(proj_variants), ms)
    ELSE FirstId(Tail(proj_variants), ms)

RECURSIVE FirstParents(_, _)
FirstParents(proj_variants, ms) ==
    IF proj_variants = <<>> THEN {}
    ELSE IF Parents(Head(proj_variants), ms) # {}
         THEN Parents(Head(proj_variants), ms)
    ELSE FirstParents(Tail(proj_variants), ms)

\* _determine_lookup_ids: <<primary_id, fallback_id>>, 0 for None
_determine_lookup_ids(proj_value, ms_value) ==
    IF proj_value = <<>> \/ ms_value = <<>> THEN <<0, 0>>
    ELSE
      LET ms_norm_value == norm_ms(ms_value)
          proj_variants == _proj_keys_for_lookup(proj_value)
          primary_id == FirstId(proj_variants, ms_norm_value)
          parents == FirstParents(proj_variants, ms_norm_value)
          fallback_id ==
              IF primary_id = 0 /\ milestone_parent_map # {} /\ parents # {}
              THEN FirstId(proj_variants, SortedFirst(parents))
              ELSE 0
      IN <<primary_id, fallback_id>>

\* the id the formulas of a row are built with (primary, else fallback)
FormulaLookupId(ids) == IF ids[1] # 0 THEN ids[1] ELSE ids[2]

\* ------------------------------------------- the budget overview sheet
\* A cell is [t |-> "num" | "str" | "empty", v |-> value].
Num(v) == [t |-> "num", v |-> v]
Str(v) == [t |-> "str", v |-> v]
Empty == [t |-> "empty", v |-> 0]

RateCell(r) == IF r = NoRate THEN Empty ELSE Num(r)

\* _create_project_budget_sheet: the cell of record i in a column
BudgetSheetCell(i, col) ==
    LET r == df_budget[i]
    IN CASE col = "A" -> Str(r.Projekt)
         [] col = "B" -> Str(r.Obermeilenstein)
         [] col = "C" -> Str(budget_sheet_C[i])
         [] col = "D" -> IF r.Sollstunden > 0 THEN Num(r.Sollstunden) ELSE Empty
         [] col = "E" -> Str("Status")
         [] col = "F" -> IF r.Gesamtbudget > 0 THEN Num(r.Gesamtbudget) ELSE Empty
         [] col = "G" -> IF r.Abgerechnet > 0 THEN Num(r.Abgerechnet) ELSE Num(0)
         [] col = "H" -> Num(r.Gesamtbudget - r.Abgerechnet)
         [] col = "I" -> RateCell(r.Stundensatz_SV)
         [] col = "J" -> RateCell(r.Stundensatz_CAD)
         [] col = "K" -> RateCell(r.Stundensatz_ADM)
         [] col = "L" -> Str("Bemerkung")
         [] col = "M" -> Num(i)

\* MATCH(lookup_id, column, 0): the first record row whose cell in the
\* column is the number lookup_id; 0 stands for #N/A
Match(lookup_id, col) ==
    LET hit == {i \in LookupIds : /\ BudgetSheetCell(i, col).t = "num"
                                  /\ BudgetSheetCell(i, col).v = lookup_id}
    IN IF hit = {} THEN 0 ELSE CHOOSE i \in hit : \A j \in hit : i <= j

\* a looked-up cell used as a number (an empty cell counts 0)
AsNumber(c) == IF c.t = "num" THEN c.v ELSE 0

\* IFERROR(INDEX(col, MATCH(lookup_id, match_col, 0)), 0)
SafeLookup(col, lookup_id, match_col) ==
    IF Match(lookup_id, match_col) = 0 THEN 0
    ELSE AsNumber(BudgetSheetCell(Match(lookup_id, match_col), col))

\* _build_lookup_expr: the budget-amount expression of a row
_build_lookup_expr(col_letter, primary_id, fallback_id) ==
    IF primary_id = 0
    THEN IF fallback_id # 0 THEN SafeLookup(col_letter, fallback_id, "L") ELSE 0
    ELSE IF fallback_id # 0
         THEN IF SafeLookup(col_letter, primary_id, "L") = 0
              THEN SafeLookup(col_letter, fallback_id, "L")
              ELSE SafeLookup(col_letter, primary_id, "L")
         ELSE SafeLookup(col_letter, primary_id, "L")

\* column C of a data row: the looked-up billing type, or the literal marker
BillingCell(ids) ==
    IF FormulaLookupId(ids) = 0 THEN "Unbekannt"
    ELSE LET m == Match(FormulaLookupId(ids), "L")
         IN IF m = 0 THEN ""
            ELSE LET c == BudgetSheetCell(m, "C")
                 IN IF c.t = "str" THEN c.v ELSE ""

\* the rate columns one column to the left (H, I, J), as the quarterly
\* rows name them
MonthlyRateColumn_Shifted(role) ==
    IF role = "SV" THEN "H" ELSE IF role = "CAD" THEN "I"
    ELSE IF role = "ADM" THEN "J" ELSE "H"

\* column L of a monthly data row
MonthlyRateColumn(role) ==
    IF role = "SV" THEN "I" ELSE IF role = "CAD" THEN "J"
    ELSE IF role = "ADM" THEN "K" ELSE "I"

\* a rate formula without the IF($B$2="-",0,...) wrapper
MonthlyRateCell_NoNone(role, ids) ==
    IF FormulaLookupId(ids) = 0 THEN 0
    ELSE SafeLookup(MonthlyRateColumn(role), FormulaLookupId(ids), "M")

MonthlyRateCell(role, ids) ==
    IF FormulaLookupId(ids) = 0 THEN 0
    ELSE IF role = "-" THEN 0
    ELSE SafeLookup(MonthlyRateColumn(role), FormulaLookupId(ids), "M")

\* column L of a quarterly row
QuarterRateColumn(role) ==
    IF role = "SV" THEN "H" ELSE IF role = "CAD" THEN "I"
    ELSE IF role = "ADM" THEN "J" ELSE "H"

QuarterRateCell(role, ids) ==
    IF FormulaLookupId(ids) = 0 THEN 0
    ELSE IF role = "-" THEN 0
    ELSE SafeLookup(QuarterRateColumn(role), FormulaLookupId(ids), "L")

\* ------------------------------------------------- row formulas (H..O)
\* column I: =IF(H<0,MAX(0,MIN(F,-H)),0)
Differenz(h, f) == IF h < 0 THEN Max2(0, Min2(f, -h)) ELSE 0

\* column M: the revenue formula; budget is column R (monthly) or Q (quarterly)
RevenueFormula(role, c, budget, d, e, f, k, l) ==
    IF role = "-" THEN 0
    ELSE IF c = "Pauschale"
         THEN IF budget = 0 \/ d = 0 THEN 0
              ELSE Max2(0, Min2((budget * (f + k)) \div d,
                                budget - (budget * e) \div d))
    ELSE l * (f + k)

\* a possible revenue that leaves the received hours out
PossibleRevenueFormula_NoReceived(role, c, budget, d, f, k, l) ==
    IF role = "-" THEN 0
    ELSE IF c = "Pauschale"
         THEN IF budget = 0 \/ d = 0 THEN 0
              ELSE (budget * f) \div d
    ELSE l * f

\* column N: the same without the remaining-budget cap
PossibleRevenueFormula(role, c, budget, d, f, k, l) ==
    IF role = "-" THEN 0
    ELSE IF c = "Pauschale"
         THEN IF budget = 0 \/ d = 0 THEN 0
              ELSE (budget * (f + k)) \div d
    ELSE l * (f + k)

\* ------------------------------------------ first pass: literal cells
\* the literal cells of the monthly data row of (emp, proj, ms, month)
MonthlyRow(emp, proj, ms, month) ==
    LET hours_value == df_quarter[<<emp, proj, ms, month>>]
        in_csv == <<proj, ms>> \in DOMAIN df_csv
        Soll0 == IF in_csv THEN df_csv[<<proj, ms>>].Soll ELSE 0
        Ist0 == IF in_csv THEN df_csv[<<proj, ms>>].Ist ELSE 0
        ms_type == get_milestone_type(ms)
        is_special_project == is_bonus_project(proj)
        ruled == ms_type = "monthly" /\ ms \in DOMAIN MONTHLY_BUDGETS
        fixed == ruled /\ ((Soll0 = 0 /\ Ist0 = 0) \/ is_special_project)
        Soll == IF fixed THEN MONTHLY_BUDGETS[ms] ELSE Soll0
        Ist == IF fixed THEN hours_value ELSE Ist0
        named == extract_budget_from_name(ms)
        soll_value ==
            IF is_special_project
            THEN IF ms \in DOMAIN MONTHLY_BUDGETS THEN MONTHLY_BUDGETS[ms]
                 ELSE IF named[2] = "monat" THEN named[1] ELSE Soll
            ELSE Soll
        ist_display ==
            IF is_special_project THEN hours_value
            ELSE Ist - future_hours_all_employees(proj, ms, month)
        q_soll ==
            IF named[2] = "quartal" THEN named[1]
            ELSE IF ms \in DOMAIN QUARTERLY_BUDGETS THEN QUARTERLY_BUDGETS[ms]
            ELSE IF Soll > 0 THEN Soll ELSE 0
        cum_ist == cum_hours(emp, proj, ms, month)
    IN [D |-> IF ms_type = "monthly" THEN soll_value ELSE q_soll,
        E |-> IF ms_type = "monthly" THEN ist_display ELSE cum_ist,
        F |-> hours_value,
        bonus_candidate |->
            IF ms_type = "monthly"
            THEN (soll_value > 0 => ist_display * 100 <= 100 * soll_value)
            ELSE (q_soll > 0 => cum_ist * 100 <= 100 * q_soll),
        special |-> is_special_project,
        ids |-> _determine_lookup_ids(proj, ms),
        K_filled |-> FALSE, K |-> {}, K_to |-> "",
        P_filled |-> FALSE, P |-> <<>>]

\* the literal cells of the quarterly row of (emp, proj, ms)
QuarterRow(emp, proj, ms, rows_of_emp) ==
    LET hours_value == quarter_hours(emp, proj, ms)
        in_csv == <<proj, ms>> \in DOMAIN df_csv
        is_special_project == is_bonus_project(proj)
        named == extract_budget_from_name(ms)
        q_soll ==
            IF is_special_project
            THEN IF named[2] = "quartal" THEN named[1]
                 ELSE IF named[2] = "monat" THEN named[1] * 3
                 ELSE IF ms \in DOMAIN QUARTERLY_BUDGETS THEN QUARTERLY_BUDGETS[ms]
                 ELSE IF ms \in DOMAIN MONTHLY_BUDGETS THEN MONTHLY_BUDGETS[ms] * 3
                 ELSE 0
            ELSE IF in_csv THEN df_csv[<<proj, ms>>].Soll ELSE 0
        ist_value ==
            IF is_special_project THEN hours_value
            ELSE IF in_csv THEN df_csv[<<proj, ms>>].Ist ELSE 0
    IN [D |-> IF q_soll > 0 THEN q_soll ELSE 0,
        E |-> IF ist_value > 0 THEN ist_value ELSE 0,
        special |-> is_special_project,
        ids |-> _determine_lookup_ids(proj, ms),
        H |-> {s \in rows_of_emp : s[2] = proj /\ s[3] = ms},
        F_filled |-> FALSE, F |-> {},
        K_filled |-> FALSE, K |-> {},
        P_filled |-> FALSE, P |-> <<>>]

\* ------------------------------------------------------------ the inputs
\* the work packages time is booked on: a lump-sum parent, its sub-package,
\* a package that occurs under two parents, an hourly parent, a parent of
\* unknown billing type, a package the master does not hold, and an
\* internal package of a 0000 project
BookKeys ==
    {<<Proj1, MsLump>>, <<Proj1, MsSub>>, <<Proj1, MsShared>>,
     <<Proj1, MsHourly>>, <<Proj1, MsOpen>>, <<Proj1, MsForeign>>,
     <<ProjInt, MsIntern>>}

\* load_xml_times, grouped as build_quarterly_report groups it: the hours
\* of the entries of one (employee, project, milestone, month); booked is
\* a set of <<employee, month, hours>>
Entries(focus, booked) ==
    LET present == {c \in booked : c[3] > 0}
        slot(c) == <<c[1], focus[1], focus[2], c[2]>>
    IN [s \in {slot(c) : c \in present} |->
            (CHOOSE c \in present : slot(c) = s)[3]]

\* ------------------------------------------------------ load_xml_times
\* a <row> element as the dict its cells give: a text is a tuple of tokens,
\* <<>> the empty text, None a cell the row does not have; the text of a
\* date cell is "day Mon year", empty, or something else
DateText(form, day, mon, year) ==
    [form |-> form, day |-> day, mon |-> mon, year |-> year]
NoDateCell == DateText("absent", 0, "", 0)
EmptyDate == DateText("empty", 0, "", 0)

XmlRow(staff_name, work_package_name, date) ==
    [staff_name |-> staff_name, work_package_name |-> work_package_name,
     date |-> date]

MonthNumbers ==
    [Jan |-> 1, Feb |-> 2, Mar |-> 3, Apr |-> 4, May |-> 5, Jun |-> 6,
     Jul |-> 7, Aug |-> 8, Sep |-> 9, Oct |-> 10, Nov |-> 11, Dec |-> 12]

\* extract_date and to_period("M"): <<year, month>>, or None for NaT
extract_date(date) ==
    IF date.form = "d Mon yyyy"
    THEN <<date.year, IF date.mon \in DOMAIN MonthNumbers
                      THEN MonthNumbers[date.mon] ELSE 1>>
    ELSE None

QuarterOf(period) == <<period[1], ((period[2] - 1) \div 3) + 1>>

\* the test a row must pass to be kept
KeepsRow(entry) ==
    /\ entry.staff_name # None
    /\ entry.staff_name # <<>>
    /\ entry.work_package_name # None
    /\ entry.date # NoDateCell

NoDataError == <<"XML", "enthält", "keine", "Daten.">>

\* load_xml_times: the rows kept, each with its period and milestone, or
\* the error raised
load_xml_times(rows) ==
    LET kept == SelectSeq(rows, KeepsRow)
    IN IF kept = <<>> THEN [error |-> NoDataError, df |-> <<>>]
       ELSE [error |-> None,
             df |-> [i \in 1..Len(kept) |->
                       [staff_name |-> kept[i].staff_name,
                        work_package_name |-> kept[i].work_package_name,
                        date |-> kept[i].date,
                        ms_norm |-> norm_ms(kept[i].work_package_name),
                        period |-> extract_date(kept[i].date)]]]

\* --------------------------------------------------- determine_quarter
\* list_available_quarters: the quarters of the periods that are not NaT
Periods(df) == {df[i].period : i \in 1..Len(df)} \ {None}
list_available_quarters(df) == {QuarterOf(p) : p \in Periods(df)}

\* sorted(): the months of a set of periods of one quarter, ascending
SortedPeriods(S) ==
    CHOOSE q \in [1..Cardinality(S) -> S] :
        \A i, j \in 1..Cardinality(S) : i < j => q[i][2] < q[j][2]

QuarterText(form, q, year) == [form |-> form, q |-> q, year |-> year]
NoRequest == QuarterText("none", 0, 0)

\* parse_quarter: <<year, quarter>> of "Q3-2025" or "2025Q3", else None
\* for the ValueError
parse_quarter(quarter_str) ==
    IF quarter_str.form \in {"Qn-yyyy", "yyyyQn"}
    THEN <<quarter_str.year, quarter_str.q>>
    ELSE None

LaterQuarter_Earlier(a, b) == a[1] < b[1] \/ (a[1] = b[1] /\ a[2] <= b[2])
LaterQuarter(a, b) == a[1] > b[1] \/ (a[1] = b[1] /\ a[2] >= b[2])

NoQuartersError == <<"Keine", "Quartale", "in", "den", "XML-Daten", "gefunden.">>
InvalidQuarterError == <<"Ungültiges", "Quartal">>
QuarterMissingError ==
    <<"Angefordertes", "Quartal", "nicht", "in", "den", "XML-Daten",
      "enthalten.">>

MonthsOfQuarter(df, target) ==
    SortedPeriods({p \in Periods(df) : QuarterOf(p) = target})

determine_quarter(df, requested) ==
    LET available == list_available_quarters(df)
        target == parse_quarter(requested)
        latest == CHOOSE a \in available : \A b \in available : LaterQuarter(a, b)
        fail(msg) == [error |-> msg, period |-> None, months |-> <<>>]
    IN IF available = {} THEN fail(NoQuartersError)
       ELSE IF requested.form \notin {"none", "empty"}
         THEN (IF target = None THEN fail(InvalidQuarterError)
               ELSE IF target \notin available THEN fail(QuarterMissingError)
               ELSE [error |-> None, period |-> target,
                     months |-> MonthsOfQuarter(df, target)])
       ELSE [error |-> None, period |-> latest,
             months |-> MonthsOfQuarter(df, latest)]

\* no XML export read yet
IdleIntake ==
    /\ xml_rows = <<>>
    /\ requested_quarter = NoRequest
    /\ df_xml = <<>>
    /\ target_quarter = None
    /\ error = None

\* the worker holds no job
NoJob == 0

\* the job system at import of the server module
InitServer ==
    /\ jobs = <<>>
    /\ job_store = {}
    /\ pending_jobs = <<>>
    /\ job_queue = <<>>
    /\ worker_task = [at |-> "get", job |-> NoJob]
    /\ output_dir = <<>>
    /\ deleting = {}
    /\ response = None
    /\ generated = <<>>

\* the rate limiter at import of the server module
InitLimiter ==
    /\ _admin_rate = <<>>
    /\ monotonic = 0

\* Anna books the package in the first month; beside her booking there is
\* none, or a colleague's in the same month, or her own in the next month
Init ==
    /\ csv_master \in Masters
    /\ \E focus \in BookKeys, a1 \in 1..MaxHours,
          more \in {<<"Ben", 1, 0>>, <<"Ben", 1, 1>>, <<"Anna", 2, 1>>} :
            df_quarter = Entries(focus, {<<"Anna", 1, a1>>, more})
    /\ pc = "load"
    /\ df_csv = <<>>
    /\ df_budget = <<>>
    /\ milestone_parent_map = {}
    /\ months = <<>>
    /\ built = <<>>
    /\ filled = <<>>
    /\ mrow = <<>>
    /\ qrow = <<>>
    /\ revenue_cells_by_key = <<>>
    /\ revenue_cells_by_key_q_all = <<>>
    /\ position = <<>>
    /\ adjustment = <<>>
    /\ assign = <<>>
    /\ budget_sheet_C = <<>>
    /\ edits = 0
    /\ progress_calls = <<>>
    /\ IdleIntake
    /\ InitServer
    /\ InitLimiter

\* --------------------------------------------------------------- actions
\* generate_quarterly_report up to the call of build_quarterly_report
Load ==
    /\ pc = "load"
    /\ df_csv' = load_csv_projects(csv_master)
    /\ df_budget' = load_csv_budget_data(csv_master).df_budget
    /\ milestone_parent_map' =
           load_csv_budget_data(csv_master).milestone_parent_map
    /\ months' = SelectSeq(QuarterMonths,
                            LAMBDA m : \E s \in Slots : s[4] = m)
    /\ progress_calls' = progress_calls \o <<5, 8, 10, 15>>
    /\ pc' = "budget_sheet"
    /\ UNCHANGED <<inputs, intake, web, built, filled, sheets, cells>>

\* the percent reported once the workbook is opened: the template loaded,
\* the template unreadable, or no template file
TemplateProgress(exists, readable) ==
    IF exists THEN (IF readable THEN 2 ELSE 2) ELSE 2

\* the percent reported after the sheet of the idx_emp-th employee
EmployeeProgress(idx_emp, total_emps) ==
    Min2(((idx_emp * 80) \div total_emps) + 20, 95)

\* build_quarterly_report up to _create_project_budget_sheet: column C of
\* the budget overview holds each record's billing type
CreateBudgetSheet ==
    /\ pc = "budget_sheet"
    /\ budget_sheet_C' = [i \in LookupIds |-> df_budget[i].Abrechnungsart]
    /\ \E exists \in BOOLEAN, readable \in BOOLEAN :
          progress_calls' =
              progress_calls \o <<TemplateProgress(exists, readable), 18>>
    /\ pc' = "build"
    /\ UNCHANGED <<inputs, intake, web, loaded, built, filled, sheets, position,
                   adjustment, assign, edits>>

\* setdefault(key, []).append(ref) for every key of refs
AppendRefs(cells_by_key, refs) ==
    [k \in DOMAIN cells_by_key \cup DOMAIN refs |->
        (IF k \in DOMAIN cells_by_key THEN cells_by_key[k] ELSE <<>>)
        \o (IF k \in DOMAIN refs THEN <<refs[k]>> ELSE <<>>)]

\* first pass of build_quarterly_report: the sheet of the next employee
BuildSheet ==
    /\ pc = "build"
    /\ Len(built) < Len(employees)
    /\ LET emp == employees[Len(built) + 1]
           rows == {s \in Slots : s[1] = emp /\ s[4] \in SeqToSet(months)}
           mkeys == {<<s[2], s[3], s[4]>> : s \in rows}
           \* groupby("Projekte") drops the keys the master does not hold
           qkeys == {k \in {<<s[2], s[3]>> : s \in rows} : k \in DOMAIN df_csv}
       IN /\ mrow' = [s \in DOMAIN mrow \cup rows |->
                         IF s \in rows
                         THEN MonthlyRow(s[1], s[2], s[3], s[4])
                         ELSE mrow[s]]
          /\ qrow' = [q \in DOMAIN qrow \cup {<<emp, k[1], k[2]>> : k \in qkeys} |->
                         IF q[1] = emp
                         THEN QuarterRow(emp, q[2], q[3], rows)
                         ELSE qrow[q]]
          /\ revenue_cells_by_key' =
                 AppendRefs(revenue_cells_by_key,
                            [k \in mkeys |-> <<emp, k[1], k[2], k[3]>>])
          /\ revenue_cells_by_key_q_all' =
                 AppendRefs(revenue_cells_by_key_q_all,
                            [k \in qkeys |-> <<emp, k[1], k[2]>>])
          /\ position' = [e \in DOMAIN position \cup {emp} |->
                             IF e = emp THEN "SV" ELSE position[e]]
          /\ adjustment' = [s \in DOMAIN adjustment \cup rows |->
                               IF s \in rows THEN 0 ELSE adjustment[s]]
          /\ assign' = [s \in DOMAIN assign \cup rows |->
                           IF s \in rows THEN "" ELSE assign[s]]
          /\ built' = Append(built, emp)
          /\ progress_calls' =
                 Append(progress_calls,
                        EmployeeProgress(Len(built) + 1,
                                         Max2(Len(employees), 1)))
          /\ pc' = IF Len(built) + 1 = Len(employees)
                   THEN "second_pass" ELSE "build"
    /\ UNCHANGED <<inputs, intake, web, loaded, filled, budget_sheet_C, edits>>

\* ------------------------------------------------ the rows of a sheet
\* the title an employee's sheet is created with and looked up by: emp[:31]
SheetName(emp) == IF Len(emp) > 31 THEN SubSeq(emp, 1, 31) ELSE emp

\* wb[emp[:31]]: create_sheet renames a sheet whose title is taken, so the
\* title leads to the sheet of the first employee it was created for
SheetHolder(emp) ==
    LET first == CHOOSE i \in 1..Len(employees) :
                    /\ SheetName(employees[i]) = SheetName(emp)
                    /\ \A j \in 1..(i - 1) :
                          SheetName(employees[j]) # SheetName(emp)
    IN employees[first]

\* the order sort_values(["Projekte", "Meilenstein"]) and the grouping by
\* (proj_norm, ms_norm) give the rows of a table
RowOrder ==
    << <<ProjInt, MsIntern>>, <<ProjInt, MsQuarter>>, <<Proj1, MsHourly>>,
       <<Proj1, MsLump>>, <<Proj1, MsSub>>, <<Proj1, MsOpen>>,
       <<Proj1, MsForeign>>, <<Proj1, MsShared>>, <<Proj1, MsQuarterOpen>> >>
KeyRank(proj, ms) ==
    CHOOSE i \in 1..Len(RowOrder) : RowOrder[i] = <<proj, ms>>

\* the data rows of one month section of an employee's sheet
MonthRows(emp, month) ==
    {s \in Slots : s[1] = emp /\ s[4] = month /\ month \in SeqToSet(months)}

\* the rows a month section takes: title, header, the data rows, five
\* summary rows and a blank row; a month without entries takes none
SectionSize(emp, month) ==
    IF MonthRows(emp, month) = {} THEN 0
    ELSE Cardinality(MonthRows(emp, month)) + 8

\* month_data_start_row: the sheet starts its sections at row 4, the data
\* rows of a section follow its title and its header
SectionStart(emp, month) ==
    LET idx == CHOOSE i \in 1..Len(months) : months[i] = month
        earlier == {months[i] : i \in 1..(idx - 1)}
    IN 4 + SumOver(earlier, [m \in earlier |-> SectionSize(emp, m)]) + 2

\* month_data_end_row
SectionEnd(emp, month) ==
    SectionStart(emp, month) + Cardinality(MonthRows(emp, month)) - 1

\* assigned_from_others_row_idx: after the data rows come 'Summe',
\* 'Bonusberechtigte Stunden', '... Sonderprojekt' and this row
AssignedRow(emp, month) == SectionEnd(emp, month) + 4

\* current_row when row_assignments[emp][track_key] is set
RowNumber(s) ==
    LET before == {t \in MonthRows(s[1], s[4]) :
                      KeyRank(t[2], t[3]) < KeyRank(s[2], s[3])}
    IN SectionStart(s[1], s[4]) + Cardinality(before)

\* current_row when quarter_row_assignments_all[emp][track_key_q] is set:
\* after the month sections come the transfer helper (title, header, a row
\* per month section, blank), the quarter overview (title, header, a row
\* per quarterly work package), a blank row, the title and the header of
\* the quarterly table
QRowNumber(q) ==
    LET emp == q[1]
        sections == {m \in SeqToSet(months) : MonthRows(emp, m) # {}}
        booked == {<<s[2], s[3]>> :
                      s \in {t \in Slots : t[1] = emp /\ t[4] \in sections}}
        overview == {k \in booked : get_milestone_type(k[2]) = "quarterly"}
        before == {k \in booked :
                      /\ k \in DOMAIN df_csv
                      /\ KeyRank(k[1], k[2]) < KeyRank(q[2], q[3])}
    IN 4 + SumOver(sections, [m \in sections |-> SectionSize(emp, m)])
         + (IF sections # {} THEN Cardinality(sections) + 3 ELSE 0)
         + (IF overview # {} THEN Cardinality(overview) + 2 ELSE 0)
         + 3 + Cardinality(before)

\* the monthly / quarterly data row found at a row of an employee's sheet;
\* the rows between the tables hold nothing in the columns I, J, K and M
MonthlyAt(emp, row) ==
    {s \in DOMAIN mrow : s[1] = emp /\ RowNumber(s) = row}
QuarterAt(emp, row) ==
    {q \in DOMAIN qrow : q[1] = emp /\ QRowNumber(q) = row}

\* the cell a reference '{emp[:31]}'!X{row} of a monthly data row reads
MonthlyRef(s) == MonthlyAt(SheetHolder(s[1]), RowNumber(s))
QuarterRef(q) == QuarterAt(SheetHolder(q[1]), QRowNumber(q))

RECURSIVE MonthlyRefs(_)
MonthlyRefs(refs) ==
    IF refs = <<>> THEN <<>>
    ELSE (IF MonthlyRef(Head(refs)) = {} THEN <<>>
          ELSE <<CHOOSE s \in MonthlyRef(Head(refs)) : TRUE>>)
         \o MonthlyRefs(Tail(refs))

RECURSIVE QuarterRefs(_)
QuarterRefs(refs) ==
    IF refs = <<>> THEN <<>>
    ELSE (IF QuarterRef(Head(refs)) = {} THEN <<>>
          ELSE <<CHOOSE q \in QuarterRef(Head(refs)) : TRUE>>)
         \o QuarterRefs(Tail(refs))

\* second pass: the cross-sheet formulas of the next employee, written
\* into the sheet wb[emp[:31]] at the rows kept in row_assignments[emp]
SecondPass ==
    /\ pc = "second_pass"
    /\ Len(filled) < Len(employees)
    /\ LET emp == employees[Len(filled) + 1]
           others(s) == {o \in DOMAIN mrow :
                            /\ o[1] # emp
                            /\ <<o[2], o[3], o[4]>> = <<s[2], s[3], s[4]>>}
           own(q) == {s \in DOMAIN mrow :
                         s[1] = emp /\ s[2] = q[2] /\ s[3] = q[3]}
           \* the rows of emp whose formulas land in the cells of row s
           written(s) == {t \in DOMAIN mrow : t[1] = emp /\ s \in MonthlyRef(t)}
           qwritten(q) == {u \in DOMAIN qrow : u[1] = emp /\ q \in QuarterRef(u)}
       IN /\ mrow' = [s \in DOMAIN mrow |->
                         IF written(s) # {}
                         THEN LET t == CHOOSE t \in written(s) : TRUE
                              IN [mrow[s] EXCEPT
                                    !.K_filled = TRUE,
                                    !.K = UNION {MonthlyRef(o) : o \in others(t)},
                                    !.K_to = emp,
                                    !.P_filled = TRUE,
                                    !.P = MonthlyRefs(
                                        revenue_cells_by_key[<<t[2], t[3], t[4]>>])]
                         ELSE mrow[s]]
          /\ qrow' = [q \in DOMAIN qrow |->
                         IF qwritten(q) # {}
                         THEN LET u == CHOOSE u \in qwritten(q) : TRUE
                              IN [qrow[q] EXCEPT
                                    !.F_filled = TRUE,
                                    !.F = UNION {MonthlyRef(t) : t \in own(u)},
                                    !.K_filled = TRUE,
                                    !.K = UNION {MonthlyRef(t) : t \in own(u)},
                                    !.P_filled = TRUE,
                                    !.P = QuarterRefs(
                                        revenue_cells_by_key_q_all[<<u[2], u[3]>>])]
                         ELSE qrow[q]]
          /\ filled' = Append(filled, emp)
          /\ progress_calls' = IF Len(filled) = 0
                                THEN Append(progress_calls, 90)
                                ELSE progress_calls
          /\ pc' = IF Len(filled) + 1 = Len(employees)
                   THEN "save" ELSE "second_pass"
    /\ UNCHANGED <<inputs, intake, web, loaded, built, revenue_cells_by_key,
                   revenue_cells_by_key_q_all, cells>>

\* cover sheet and wb.save, then generate_quarterly_report returns: the
\* workbook is handed to the reviewer
Save ==
    /\ pc = "save"
    /\ progress_calls' = progress_calls \o <<96, 98, 100>>
    /\ pc' = "done"
    /\ UNCHANGED <<inputs, intake, web, loaded, built, filled, sheets, cells>>

\* ------------------------------------------ the reviewer's cell edits
\* the entries of the 'Zuordnen an' dropdown of a row; a row without
\* colleagues on its key gets no dropdown and its cell takes any name
TargetChoices(s) ==
    LET other_employees ==
            project_milestone_employees(<<s[2], s[3], s[4]>>) \ {s[1]}
    IN IF other_employees # {} THEN other_employees \cup {""}
       ELSE (EmployeeSet \ {s[1]}) \cup {""}

\* cell B2 of an employee sheet (dropdown SV, CAD, ADM, Pauschale, -)
SetPosition ==
    /\ pc = "done" /\ edits < MaxEdits
    /\ \E emp \in DOMAIN position, role \in Roles :
          /\ role # position[emp]
          /\ position' = [position EXCEPT ![emp] = role]
    /\ edits' = edits + 1
    /\ UNCHANGED <<inputs, intake, web, pc, progress_calls, loaded, built, filled, sheets, adjustment,
                   assign, budget_sheet_C>>

\* column H of a monthly data row (free number entry)
EditAdjustment(limit) ==
    /\ pc = "done" /\ edits < limit
    /\ \E s \in DOMAIN adjustment, v \in (-MaxAdj)..1 :
          /\ v # adjustment[s]
          /\ adjustment' = [adjustment EXCEPT ![s] = v]
    /\ edits' = edits + 1
    /\ UNCHANGED <<inputs, intake, web, pc, progress_calls, loaded, built, filled, sheets, position,
                   assign, budget_sheet_C>>

SetAdjustment == EditAdjustment(MaxEdits)

\* column J of a monthly data row
EditTarget(limit) ==
    /\ pc = "done" /\ edits < limit
    /\ \E s \in DOMAIN assign, t \in EmployeeSet \cup SeqToSet(LongNames) \cup {""} :
          /\ t \in TargetChoices(s)
          /\ t # assign[s]
          /\ assign' = [assign EXCEPT ![s] = t]
    /\ edits' = edits + 1
    /\ UNCHANGED <<inputs, intake, web, pc, progress_calls, loaded, built, filled, sheets, position,
                   adjustment, budget_sheet_C>>

SetTarget == EditTarget(MaxEdits)

\* column C of the budget overview (dropdown Pauschale, Nachweis, Unbekannt)
SetBillingType ==
    /\ pc = "done" /\ edits < MaxEdits
    /\ \E i \in DOMAIN budget_sheet_C, t \in BillingTypes :
          /\ t # budget_sheet_C[i]
          /\ budget_sheet_C' = [budget_sheet_C EXCEPT ![i] = t]
    /\ edits' = edits + 1
    /\ UNCHANGED <<inputs, intake, web, pc, progress_calls, loaded, built, filled, sheets, position,
                   adjustment, assign>>

Next ==
    \/ Load
    \/ CreateBudgetSheet
    \/ BuildSheet
    \/ SecondPass
    \/ Save
    \/ SetPosition
    \/ SetAdjustment
    \/ SetTarget
    \/ SetBillingType

Spec == Init /\ [][Next]_vars

\* The reallocation cells alone, edited more often, on one work package
\* that up to three employees book in the first month.
InitRealloc ==
    /\ csv_master \in Masters
    /\ \E a1 \in 1..MaxHours, b1 \in 0..1, c1 \in 0..1, a2 \in 0..1 :
            df_quarter = Entries(<<Proj1, MsHourly>>,
                                 {<<"Anna", 1, a1>>, <<"Ben", 1, b1>>,
                                  <<"Cara", 1, c1>>, <<"Anna", 2, a2>>})
    /\ pc = "load"
    /\ df_csv = <<>>
    /\ df_budget = <<>>
    /\ milestone_parent_map = {}
    /\ months = <<>>
    /\ built = <<>>
    /\ filled = <<>>
    /\ mrow = <<>>
    /\ qrow = <<>>
    /\ revenue_cells_by_key = <<>>
    /\ revenue_cells_by_key_q_all = <<>>
    /\ position = <<>>
    /\ adjustment = <<>>
    /\ assign = <<>>
    /\ budget_sheet_C = <<>>
    /\ edits = 0
    /\ progress_calls = <<>>
    /\ IdleIntake
    /\ InitServer
    /\ InitLimiter

TransferAdjustment == EditAdjustment(MaxTransferEdits)
TransferTarget == EditTarget(MaxTransferEdits)

NextRealloc ==
    \/ Load
    \/ CreateBudgetSheet
    \/ BuildSheet
    \/ SecondPass
    \/ Save
    \/ TransferAdjustment
    \/ TransferTarget

SpecRealloc == InitRealloc /\ [][NextRealloc]_vars

\* Bonus hours and cumulative values: several work packages on one sheet,
\* several months, hours above a quota; only adjustment cells are edited.

\* a monthly package of an ordinary project, the internal monthly package,
\* the internal quarterly package, a quarterly package without a quota
BonusKeys ==
    {<<Proj1, MsLump>>, <<ProjInt, MsIntern>>, <<ProjInt, MsQuarter>>,
     <<Proj1, MsQuarterOpen>>}

\* hours within every quota, and 125 % of the internal monthly quota
OverQuotaHours == (MONTHLY_BUDGETS[MsIntern] * 5) \div 4
BonusHours == {1, MaxHours + 1, OverQuotaHours}

\* load_xml_times, grouped per (employee, project, milestone, month);
\* booked is a set of <<employee, project, milestone, month, hours>>
Bookings(booked) ==
    LET present == {b \in booked : b[5] > 0}
        slot(b) == <<b[1], b[2], b[3], b[4]>>
    IN [s \in {slot(b) : b \in present} |->
            (CHOOSE b \in present : slot(b) = s)[5]]

\* a colleague's booking beside Anna's: none, the same package in the same
\* or in the next month, or the sub-package of the lump-sum package
PeerChoices(k) ==
    {{}, {<<"Ben", k[1], k[2], 1, 1>>}, {<<"Ben", k[1], k[2], 2, 1>>},
     {<<"Ben", Proj1, MsSub, 1, 1>>}}

\* Anna books a package in the first month and perhaps again in the second,
\* and one hour on a package of the other pool
InitBonus ==
    /\ csv_master \in Masters
    /\ \E k \in BonusKeys, h1 \in BonusHours, h2 \in {0, MaxHours + 1} :
         \E peer \in PeerChoices(k) :
            LET side == IF k[1] = ProjInt THEN <<Proj1, MsSub>>
                        ELSE <<ProjInt, MsIntern>>
            IN df_quarter =
                 Bookings({<<"Anna", k[1], k[2], 1, h1>>,
                           <<"Anna", k[1], k[2], 2, h2>>,
                           <<"Anna", side[1], side[2], 1, 1>>} \cup peer)
    /\ pc = "load"
    /\ df_csv = <<>>
    /\ df_budget = <<>>
    /\ milestone_parent_map = {}
    /\ months = <<>>
    /\ built = <<>>
    /\ filled = <<>>
    /\ mrow = <<>>
    /\ qrow = <<>>
    /\ revenue_cells_by_key = <<>>
    /\ revenue_cells_by_key_q_all = <<>>
    /\ position = <<>>
    /\ adjustment = <<>>
    /\ assign = <<>>
    /\ budget_sheet_C = <<>>
    /\ edits = 0
    /\ progress_calls = <<>>
    /\ IdleIntake
    /\ InitServer
    /\ InitLimiter

BonusAdjustment == EditAdjustment(MaxEdits)

NextBonus ==
    \/ Load
    \/ CreateBudgetSheet
    \/ BuildSheet
    \/ SecondPass
    \/ Save
    \/ BonusAdjustment

SpecBonus == InitBonus /\ [][NextBonus]_vars

\* ------------------------------------------------- cell values: months
\* The value Excel shows in a cell of the monthly data row s.
MRows == DOMAIN mrow

CellH(s) == adjustment[s]
CellF(s) == mrow[s].F
CellI(s) == Differenz(CellH(s), CellF(s))
CellJ(s) == assign[s]

\* a first pass whose placeholder the second pass never replaces
CellK_Placeholder(s) == 0

\* a second pass that adds every colleague's transferred hours, whoever
\* the target cell names
CellK_AnyTarget(s) ==
    IF ~mrow[s].K_filled THEN 0
    ELSE SumOver(mrow[s].K, [o \in mrow[s].K |-> CellI(o)])

\* column K: 0 until the second pass writes
\* IF('other'!J="emp",'other'!I,0)+... over the colleagues' rows of the key
CellK(s) ==
    IF ~mrow[s].K_filled THEN 0
    ELSE SumOver(mrow[s].K,
                 [o \in mrow[s].K |->
                     IF CellJ(o) = mrow[s].K_to THEN CellI(o) ELSE 0])

CellC(s) == BillingCell(mrow[s].ids)
CellL(s) == MonthlyRateCell(position[s[1]], mrow[s].ids)
CellR(s) == _build_lookup_expr("F", mrow[s].ids[1], mrow[s].ids[2])

CellM(s) ==
    RevenueFormula(position[s[1]], CellC(s), CellR(s), mrow[s].D, mrow[s].E,
                   CellF(s), CellK(s), CellL(s))

CellN(s) ==
    PossibleRevenueFormula(position[s[1]], CellC(s), CellR(s), mrow[s].D,
                           CellF(s), CellK(s), CellL(s))

CellO(s) == CellN(s) - CellM(s)

\* column P: 0 until the second pass writes the sum of the revenue cells
\* kept in revenue_cells_by_key for the row's key
CellP(s) ==
    IF ~mrow[s].P_filled THEN 0
    ELSE SumOver(DOMAIN mrow[s].P,
                 [i \in DOMAIN mrow[s].P |-> CellM(mrow[s].P[i])])

\* column G: (Ist / Soll) * 100 rounded to two decimals, kept in hundredths
\* of a percent; 0 without a quota
PctCell(d, e) ==
    IF d > 0 THEN (2 * e * 10000 + d) \div (2 * d) ELSE 0

\* column G of a monthly data row; a quarterly milestone without a quota
\* shows "-"
CellG(s) ==
    IF get_milestone_type(s[3]) = "quarterly" /\ mrow[s].D <= 0 THEN "-"
    ELSE PctCell(mrow[s].D, mrow[s].E)

\* ------------------------------------- cell values: monthly summary rows
\* the months the employee's sheet has a section for
SectionMonths(emp) == {s[4] : s \in {t \in MRows : t[1] = emp}}

\* the data rows of a month section that belong to a pool (special: the
\* rows of 0000 projects)
PoolRows(emp, month, special) ==
    {s \in MRows : /\ s[1] = emp /\ s[4] = month
                   /\ mrow[s].special = special}

\* column G of 'Bonusberechtigte Stunden' (Sonderprojekt): the hours of
\* the pool's bonus candidates, summed while the rows are written
BonusBaseCell(emp, month, special) ==
    LET rows == {s \in PoolRows(emp, month, special) : mrow[s].bonus_candidate}
    IN SumOver(rows, [s \in rows |-> mrow[s].F])

\* an adjustment sum over every data row of the section, whatever its pool
BonusAdjCell_AllRows(emp, month, special) ==
    LET rows == PoolRows(emp, month, TRUE) \cup PoolRows(emp, month, FALSE)
    IN SumOver(rows, [s \in rows |-> CellH(s)])

\* column H of the summary row: =SUM(H cells of the pool's rows), 0 when
\* the pool has no row
BonusAdjCell(emp, month, special) ==
    LET rows == PoolRows(emp, month, special)
    IN SumOver(rows, [s \in rows |-> CellH(s)])

\* column F of the summary row: =G+H
BonusTotalCell(emp, month, special) ==
    BonusBaseCell(emp, month, special) + BonusAdjCell(emp, month, special)

\* column F of 'Zugeordnete Stunden von anderen MA': 0 until the second
\* pass of an employee writes =SUM(K{start}:K{end}) over one of its month
\* sections into this cell of the sheet wb[emp[:31]]; the last formula
\* written stays
AssignedFromOthersCell(emp, month) ==
    LET lands(i) == {m \in SeqToSet(months) :
                        /\ MonthRows(filled[i], m) # {}
                        /\ SheetHolder(filled[i]) = emp
                        /\ AssignedRow(filled[i], m) = AssignedRow(emp, month)}
        writers == {i \in 1..Len(filled) : lands(i) # {}}
    IN IF writers = {} THEN 0
       ELSE LET w == MaxOfSet(writers)
                m == CHOOSE m \in lands(w) : TRUE
                rows == {s \in MRows :
                            /\ s[1] = emp
                            /\ RowNumber(s) >= SectionStart(filled[w], m)
                            /\ RowNumber(s) <= SectionEnd(filled[w], m)}
            IN SumOver(rows, [s \in rows |-> CellK(s)])

\* column F of 'Gesamt Bonus Stunden':
\* =bonus total + special-project total + assigned from others
GesamtBonusCell(emp, month) ==
    BonusTotalCell(emp, month, FALSE) + BonusTotalCell(emp, month, TRUE)
        + AssignedFromOthersCell(emp, month)

\* ----------------------------------------------- cell values: quarter
\* The value Excel shows in a cell of the quarterly row q = <<emp, proj, ms>>.
QRows == DOMAIN qrow

\* column H: =SUM(H of the employee's monthly rows of the key)
QCellH(q) == SumOver(qrow[q].H, [s \in qrow[q].H |-> CellH(s)])

\* column F: empty until the second pass writes =SUM(F.., I.., K..)
QCellF(q) ==
    IF ~qrow[q].F_filled THEN 0
    ELSE SumOver(qrow[q].F,
                 [s \in qrow[q].F |-> CellF(s) + CellI(s) + CellK(s)])

QCellI(q) == Differenz(QCellH(q), QCellF(q))

\* column K: 0 until the second pass writes =SUM(K of the monthly rows)
QCellK(q) ==
    IF ~qrow[q].K_filled THEN 0
    ELSE SumOver(qrow[q].K, [s \in qrow[q].K |-> CellK(s)])

QCellC(q) == BillingCell(qrow[q].ids)
QCellL(q) == QuarterRateCell(position[q[1]], qrow[q].ids)
QCellQ(q) == _build_lookup_expr("E", qrow[q].ids[1], qrow[q].ids[2])

QCellM(q) ==
    RevenueFormula(position[q[1]], QCellC(q), QCellQ(q), qrow[q].D, qrow[q].E,
                   QCellF(q), QCellK(q), QCellL(q))

QCellN(q) ==
    PossibleRevenueFormula(position[q[1]], QCellC(q), QCellQ(q), qrow[q].D,
                           QCellF(q), QCellK(q), QCellL(q))

QCellO(q) == QCellN(q) - QCellM(q)

QCellP(q) ==
    IF ~qrow[q].P_filled THEN 0
    ELSE SumOver(DOMAIN qrow[q].P,
                 [i \in DOMAIN qrow[q].P |-> QCellM(qrow[q].P[i])])

\* ================================================================ claims

\* C1: in every monthly data row and in every quarterly row, for every
\* value of the adjustment cell, the transferred value (Differenz) lies
\* between 0 and the hours logged for the row, and equals
\* min(hours, -adjustment) when the adjustment is negative, 0 otherwise.
C1_TransferredWithinHours ==
    /\ \A s \in MRows :
          /\ 0 <= CellI(s) /\ CellI(s) <= df_quarter[s]
          /\ CellI(s) = IF CellH(s) < 0
                        THEN Min2(df_quarter[s], -CellH(s)) ELSE 0
    /\ \A q \in QRows :
          /\ 0 <= QCellI(q) /\ QCellI(q) <= quarter_hours(q[1], q[2], q[3])
          /\ QCellI(q) = IF QCellH(q) < 0
                         THEN Min2(quarter_hours(q[1], q[2], q[3]), -QCellH(q))
                         ELSE 0

\* C2: after any edits of adjustment and target cells, the received value
\* (Von anderen) of every row equals the sum of the transferred values of
\* the other employees' rows of the same project, milestone and month
\* whose target cell names the row's employee.
C2_ReceivedFromOthers ==
    pc = "done" =>
        \A s \in MRows :
            LET givers == {o \in MRows : /\ o[1] # s[1]
                                         /\ <<o[2], o[3], o[4]>> = <<s[2], s[3], s[4]>>
                                         /\ assign[o] = s[1]}
            IN CellK(s) = SumOver(givers, [o \in givers |-> CellI(o)])

\* a row receives from one colleague while another colleague of the same
\* key gives hours away without naming the row's employee
C2_Witness ==
    /\ pc = "done"
    /\ \E s \in MRows, o \in MRows :
          /\ CellK(s) > 0
          /\ o[1] # s[1] /\ <<o[2], o[3], o[4]>> = <<s[2], s[3], s[4]>>
          /\ CellI(o) > 0 /\ CellJ(o) # s[1]

\* C3: a step that adds or removes one reallocation (a row r with
\* transferred > 0 and a target T) changes the received value of T's row
\* at r's key and of no other row.
C3_ReallocationFrame ==
    [][\A r \in MRows :
          LET before == CellI(r) > 0 /\ CellJ(r) \in EmployeeSet
              after == (CellI(r) > 0 /\ CellJ(r) \in EmployeeSet)'
              T == IF before THEN CellJ(r) ELSE CellJ(r)'
          IN (pc = "done" /\ before # after) =>
                \A s \in MRows :
                    (CellK(s)' # CellK(s)) <=> (s = <<T, r[2], r[3], r[4]>>)
      ]_vars

\* a reallocation is in place: its target has received the hours and a
\* third employee of the same key has received nothing
C3_Witness ==
    /\ pc = "done"
    /\ \E r \in MRows, s \in MRows, b \in MRows :
          /\ CellI(r) > 0 /\ CellJ(r) = s[1]
          /\ <<s[2], s[3], s[4]>> = <<r[2], r[3], r[4]>>
          /\ <<b[2], b[3], b[4]>> = <<r[2], r[3], r[4]>>
          /\ b[1] \notin {r[1], s[1]}
          /\ CellK(s) = CellI(r) /\ CellK(b) = 0

\* C4: the record whose billing type, rate and budget amount a row's
\* formulas show is the one resolved by direct match, else through the
\* milestone's single parent; a milestone without a direct match and with
\* no parent or with several parents gets no record at all.
C4_ResolvedRecord ==
    /\ \A s \in MRows :
          /\ FormulaLookupId(mrow[s].ids) = _resolve_budget_data(s[2], s[3])
          /\ (/\ \A key \in SeqToSet(_proj_keys_for_lookup(s[2])) :
                    /\ budget_lookup(key, norm_ms(s[3])) = 0
                    /\ Cardinality(Parents(key, norm_ms(s[3]))) # 1)
             => FormulaLookupId(mrow[s].ids) = 0
    /\ \A q \in QRows :
          FormulaLookupId(qrow[q].ids) = _resolve_budget_data(q[2], q[3])

\* C5: a row without a resolved record, or whose record's billing type is
\* Unbekannt, shows 'Unbekannt' in its billing-type cell and earns no
\* revenue by either billing model's formula.
C5_UnknownMarked ==
    pc = "done" =>
        \A s \in MRows :
            LET id == _resolve_budget_data(s[2], s[3])
            IN (id = 0 \/ budget_sheet_C[id] = "Unbekannt") =>
                  /\ CellC(s) = "Unbekannt"
                  /\ CellM(s) = 0
                  /\ CellN(s) = 0

\* C6: for every lump-sum record, the revenue cells of all monthly rows
\* that resolve to it (all employees, months and sub-milestones) add up to
\* at most the record's budget amount.
C6_LumpSumWithinBudget ==
    pc = "done" =>
        \A i \in LookupIds :
            LET consumers == {s \in MRows : _resolve_budget_data(s[2], s[3]) = i}
            IN (df_budget[i].Abrechnungsart = "Pauschale"
                  /\ budget_sheet_C[i] = "Pauschale") =>
                  SumOver(consumers, [s \in consumers |-> CellM(s)])
                      <= df_budget[i].Gesamtbudget

\* C7: in every monthly and quarterly row, whatever the role, billing-type,
\* adjustment and target cells hold, lost revenue is possible revenue
\* minus revenue and is not negative.
C7_LostRevenueNonNegative ==
    /\ \A s \in MRows : CellO(s) = CellN(s) - CellM(s) /\ CellO(s) >= 0
    /\ \A q \in QRows : QCellO(q) = QCellN(q) - QCellM(q) /\ QCellO(q) >= 0

\* a row that earns revenue on hours received from a colleague
C7_Witness ==
    /\ pc = "done"
    /\ \E s \in MRows : CellK(s) > 0 /\ CellM(s) > 0 /\ CellN(s) > 0

\* C8: for a lump-sum record with budget B and quota hours Q > 0, while the
\* hours logged on the item by all employees do not exceed Q, a row's
\* revenue is B * (hours + received) / Q and equals its possible revenue.
C8_LumpSumProportional ==
    pc = "done" =>
        \A s \in MRows :
            LET id == _resolve_budget_data(s[2], s[3])
                logged == {t \in Slots : t[2] = s[2] /\ t[3] = s[3]}
            IN (/\ id # 0
                /\ budget_sheet_C[id] = "Pauschale"
                /\ df_budget[id].Sollstunden > 0
                /\ position[s[1]] # "-"
                /\ mrow[s].E <= df_budget[id].Sollstunden
                /\ SumOver(logged, HoursOf) <= df_budget[id].Sollstunden) =>
                  /\ CellM(s) * df_budget[id].Sollstunden
                        = df_budget[id].Gesamtbudget * (df_quarter[s] + CellK(s))
                  /\ CellN(s) = CellM(s)

C10_NoneZeroesAll ==
    pc = "done" =>
        \A e \in DOMAIN position :
            position[e] = "-" =>
                /\ \A s \in {t \in MRows : t[1] = e} :
                      /\ CellL(s) = 0 /\ CellM(s) = 0 /\ CellN(s) = 0
                      /\ CellO(s) = 0 /\ CellP(s) = 0
                /\ \A q \in {t \in QRows : t[1] = e} :
                      /\ QCellL(q) = 0 /\ QCellM(q) = 0 /\ QCellN(q) = 0
                      /\ QCellO(q) = 0 /\ QCellP(q) = 0

\* C10 amended: with the role cell '-', rate, revenue, possible revenue and
\* lost revenue are 0 in every monthly and quarterly row of the employee's
\* sheet; the cumulative revenue cell shows the revenue the other employees
\* earn on the row's key.
C10_NoneZeroesOwn ==
    pc = "done" =>
        \A e \in DOMAIN position :
            position[e] = "-" =>
                /\ \A s \in {t \in MRows : t[1] = e} :
                      LET peers == {o \in MRows :
                                      /\ o[1] # e
                                      /\ <<o[2], o[3], o[4]>> = <<s[2], s[3], s[4]>>}
                      IN /\ CellL(s) = 0 /\ CellM(s) = 0 /\ CellN(s) = 0
                         /\ CellO(s) = 0
                         /\ CellP(s) = SumOver(peers, [o \in peers |-> CellM(o)])
                /\ \A q \in {t \in QRows : t[1] = e} :
                      LET peers == {o \in QRows :
                                      o[1] # e /\ <<o[2], o[3]>> = <<q[2], q[3]>>}
                      IN /\ QCellL(q) = 0 /\ QCellM(q) = 0 /\ QCellN(q) = 0
                         /\ QCellO(q) = 0
                         /\ QCellP(q) = SumOver(peers, [o \in peers |-> QCellM(o)])

\* an employee without a role whose sheet shows a colleague's revenue as
\* cumulative revenue
C10_Witness ==
    /\ pc = "done"
    /\ \E s \in MRows :
          /\ position[s[1]] = "-"
          /\ df_quarter[s] > 0
          /\ CellM(s) = 0
          /\ CellP(s) > 0

\* C17: the percent values passed to the progress callback during one
\* run never decrease from one call to the next.
C17_ProgressMonotonic ==
    \A i \in 1..(Len(progress_calls) - 1) :
        progress_calls[i] <= progress_calls[i + 1]

\* C18: an edit of an adjustment, target, role or billing-type cell leaves
\* the hours cell of every monthly data row and of every quarterly row as
\* it was.
C18_HoursUnchanged ==
    [][(pc = "done" /\ pc' = "done") =>
          /\ \A s \in MRows : CellF(s)' = CellF(s)
          /\ \A q \in QRows : QCellF(q)' = QCellF(q)
      ]_vars

\* C20: every lookup formula of a monthly or quarterly row that carries a
\* lookup id shows the field of the record with that id: its billing type,
\* its rate of the role (SV, CAD, ADM; 0 when the record has none) and its
\* budget amount.
C20_LookupReturnsField ==
    pc = "done" =>
        LET rate(id, role) ==
                LET stored == IF role = "SV" THEN df_budget[id].Stundensatz_SV
                              ELSE IF role = "CAD"
                                   THEN df_budget[id].Stundensatz_CAD
                              ELSE df_budget[id].Stundensatz_ADM
                IN IF stored = NoRate THEN 0 ELSE stored
        IN /\ \A s \in MRows :
                LET id == FormulaLookupId(mrow[s].ids)
                IN id # 0 =>
                     /\ CellC(s) = budget_sheet_C[id]
                     /\ CellR(s) = df_budget[id].Gesamtbudget
                     /\ position[s[1]] \in {"SV", "CAD", "ADM"} =>
                           CellL(s) = rate(id, position[s[1]])
           /\ \A q \in QRows :
                LET id == FormulaLookupId(qrow[q].ids)
                IN id # 0 =>
                     /\ QCellC(q) = budget_sheet_C[id]
                     /\ QCellQ(q) = df_budget[id].Gesamtbudget
                     /\ position[q[1]] \in {"SV", "CAD", "ADM"} =>
                           QCellL(q) = rate(id, position[q[1]])

\* C11: the cumulative revenue cell of every monthly data row is the sum
\* of the revenue cells of all rows, of all employees, that resolve to the
\* same record in the same month, sub-packages of the record included; the
\* cumulative cell of a quarterly row is that sum over the quarterly rows.
C11_CumulativePerRecord ==
    pc = "done" =>
        /\ \A s \in MRows :
              LET id == _resolve_budget_data(s[2], s[3])
                  group == {t \in MRows :
                              /\ t[4] = s[4]
                              /\ _resolve_budget_data(t[2], t[3]) = id}
              IN id # 0 =>
                   CellP(s) = SumOver(group, [t \in group |-> CellM(t)])
        /\ \A q \in QRows :
              LET id == _resolve_budget_data(q[2], q[3])
                  group == {t \in QRows : _resolve_budget_data(t[2], t[3]) = id}
              IN id # 0 =>
                   QCellP(q) = SumOver(group, [t \in group |-> QCellM(t)])

\* the master's cumulative actual hours of a work package
MasterIst(proj, ms) ==
    IF <<proj, ms>> \in DOMAIN df_csv THEN df_csv[<<proj, ms>>].Ist ELSE 0

\* a monthly data row of a monthly milestone on an ordinary project
OrdinaryMonthly(s) ==
    /\ s[2][1] # "0000"
    /\ get_milestone_type(s[3]) = "monthly"
    /\ s[3] \notin DOMAIN MONTHLY_BUDGETS

\* hours all employees logged on the package in the months after lo, up to hi
LoggedBetween(proj, ms, lo, hi) ==
    LET later == {t \in Slots : /\ t[2] = proj /\ t[3] = ms
                                /\ t[4] > lo /\ t[4] <= hi}
    IN SumOver(later, [t \in later |-> df_quarter[t]])

QBonusBaseCell(emp, special) ==
    SumOver(SectionMonths(emp),
            [m \in SectionMonths(emp) |-> BonusBaseCell(emp, m, special)])

\* column H of that row: the literal 0
QBonusAdjCell(emp, special) == 0

\* column F of that row: =G+H
QBonusTotalCell(emp, special) ==
    QBonusBaseCell(emp, special) + QBonusAdjCell(emp, special)

\* 'Bonusberechtigte Stunden (Quartal)': =SUM(F cells of the monthly
\* summary rows)
QuarterBonusCell(emp, special) ==
    SumOver(SectionMonths(emp),
            [m \in SectionMonths(emp) |-> BonusTotalCell(emp, m, special)])

\* C14: a row of a 0000 project on a milestone of the monthly rule table
\* shows the rule value as quota and the employee's hours of that month as
\* actual, its percentage is actual / quota x 100, and its hours are bonus
\* candidates iff the percentage is at most 100.
C14_InternalMonthlyQuota ==
    \A s \in MRows :
        (s[2][1] = "0000" /\ s[3] \in DOMAIN MONTHLY_BUDGETS) =>
            LET quota == MONTHLY_BUDGETS[s[3]]
            IN /\ mrow[s].D = quota
               /\ mrow[s].E = df_quarter[s]
               /\ CellG(s) * quota = 10000 * df_quarter[s]
               /\ mrow[s].bonus_candidate <=> (CellG(s) <= 10000)
               /\ mrow[s].special

\* the rule of 8 h with 10 h logged in a month in which the employee has
\* further hours on the package in another month: quota 8, actual 10,
\* 125 %, no eligible hours in the special pool
C14_Witness ==
    \E s \in MRows, t \in MRows :
        /\ s[2][1] = "0000" /\ s[3] \in DOMAIN MONTHLY_BUDGETS
        /\ t[1] = s[1] /\ t[2] = s[2] /\ t[3] = s[3] /\ t[4] # s[4]
        /\ df_quarter[s] = 10
        /\ mrow[s].D = 8 /\ mrow[s].E = 10 /\ CellG(s) = 12500
        /\ BonusBaseCell(s[1], s[4], TRUE) = 0

\* the quota of a quarterly milestone: the hours in its name, else the
\* quarterly rule table, else the master's quota, else none
QuarterQuota(proj, ms) ==
    IF HasToken(ms, {"4h/Quartal"}) THEN 4
    ELSE IF ms \in DOMAIN QUARTERLY_BUDGETS THEN QUARTERLY_BUDGETS[ms]
    ELSE IF <<proj, ms>> \in DOMAIN df_csv THEN Max2(df_csv[<<proj, ms>>].Soll, 0)
    ELSE 0

EligibleHours(s) == IF mrow[s].bonus_candidate THEN df_quarter[s] ELSE 0

\* the data rows of an employee that belong to a pool by the project code
PoolOf(emp, special) ==
    {s \in MRows : s[1] = emp /\ ((s[2][1] = "0000") <=> special)}

\* C16: on every sheet the monthly total of a pool is the sum of the
\* eligible hours and of the adjustment cells of the month's rows of that
\* pool alone (the special pool: project code 0000); the quarterly totals
\* of a pool are sums over the rows of that pool alone.
C16_PoolsSeparate ==
    \A emp \in SeqToSet(built), special \in BOOLEAN :
        LET pool == PoolOf(emp, special)
        IN /\ \A m \in SectionMonths(emp) :
                LET rows == {s \in pool : s[4] = m}
                IN BonusTotalCell(emp, m, special)
                     = SumOver(rows, [s \in rows |->
                                         EligibleHours(s) + CellH(s)])
           /\ QuarterBonusCell(emp, special)
                = SumOver(pool, [s \in pool |-> EligibleHours(s) + CellH(s)])
           /\ QBonusBaseCell(emp, special)
                = SumOver(pool, [s \in pool |-> EligibleHours(s)])
           /\ QBonusTotalCell(emp, special)
                = QBonusBaseCell(emp, special) + QBonusAdjCell(emp, special)

\* a sheet with rows of both pools in one month, both adjusted, and
\* different totals in the two pools
C16_Witness ==
    /\ pc = "done"
    /\ \E s \in MRows, t \in MRows :
          /\ s[1] = t[1] /\ s[4] = t[4]
          /\ s[2][1] = "0000" /\ t[2][1] # "0000"
          /\ CellH(s) < 0 /\ CellH(t) > 0
          /\ BonusTotalCell(s[1], s[4], TRUE) # BonusTotalCell(s[1], s[4], FALSE)

\* C19: on every sheet, whatever the monthly adjustment cells hold, the
\* total of the quarterly 'Bonusberechtigte Stunden' row and the total
\* 'Bonusberechtigte Stunden (Quartal)' both equal the sum of the monthly
\* totals of the pool, for the ordinary and for the special pool.
C19_QuarterlyBonusTotals ==
    \A emp \in SeqToSet(built), special \in BOOLEAN :
        LET monthly == SumOver(SectionMonths(emp),
                               [m \in SectionMonths(emp) |->
                                   BonusTotalCell(emp, m, special)])
        IN /\ QBonusTotalCell(emp, special) = monthly
           /\ QuarterBonusCell(emp, special) = monthly

\* ------------------------------------------- reading the two input files
\* generate_quarterly_report up to the selection of the quarter, on the raw
\* rows of the XML export and on budget masters with and without sub-items

\* a billed package whose sub-items carry no hours, and one whose own hours
\* differ from those of its sub-items
Master2 ==
    << MRow(Proj1, MsLump, "X", 4, 2, 8, 0),
       MRow(Proj1, MsShared, "", 0, 0, 0, 0),
       MRow(Proj1, MsHourly, "X", 3, 0, 0, 0),
       MRow(Proj1, <<"'", "SV">>, "", 2, 0, 0, 4) >>

IntakeMasters == {Master1, Master2}

\* rows with every cell filled, dated in four months of three quarters and
\* not in the order of their dates, and rows with one cell missing, empty
\* or unreadable
XmlRowList ==
    << XmlRow(<<"Ben">>, MsSub, DateText("d Mon yyyy", 11, "Apr", 2025)),
       XmlRow(<<"Ben">>, MsSub, DateText("d Mon yyyy", 9, "Mar", 2025)),
       XmlRow(<<"Anna">>, MsSub, DateText("d Mon yyyy", 7, "Jan", 2025)),
       XmlRow(<<"Anna">>, MsSub, DateText("d Mon yyyy", 5, "Dec", 2024)),
       XmlRow(None, MsSub, DateText("d Mon yyyy", 3, "Feb", 2025)),
       XmlRow(<<>>, MsSub, DateText("d Mon yyyy", 3, "Feb", 2025)),
       XmlRow(<<"Cara">>, None, DateText("d Mon yyyy", 3, "Feb", 2025)),
       XmlRow(<<"Cara">>, <<>>, DateText("d Mon yyyy", 3, "Feb", 2025)),
       XmlRow(<<"Cara">>, MsSub, NoDateCell),
       XmlRow(<<"Cara">>, MsSub, EmptyDate),
       XmlRow(<<"Cara">>, MsSub, DateText("other", 0, "", 0)) >>

\* an export holding the rows of the list at the places picked
XmlExport(picked) ==
    [i \in 1..Cardinality(picked) |->
        XmlRowList[CHOOSE x \in picked :
                      Cardinality({y \in picked : y < x}) = i - 1]]

RequestChoices ==
    {NoRequest, QuarterText("empty", 0, 0), QuarterText("Qn-yyyy", 1, 2025),
     QuarterText("yyyyQn", 4, 2024), QuarterText("Qn-yyyy", 3, 2025),
     QuarterText("other", 0, 0)}

InitIntake ==
    /\ csv_master \in IntakeMasters
    /\ \E picked \in SUBSET (1..Len(XmlRowList)) :
          /\ Cardinality(picked) <= MaxRows
          /\ xml_rows = XmlExport(picked)
    /\ requested_quarter \in RequestChoices
    /\ df_quarter = <<>>
    /\ pc = "csv"
    /\ df_csv = <<>>
    /\ df_budget = <<>>
    /\ milestone_parent_map = {}
    /\ months = <<>>
    /\ built = <<>>
    /\ filled = <<>>
    /\ mrow = <<>>
    /\ qrow = <<>>
    /\ revenue_cells_by_key = <<>>
    /\ revenue_cells_by_key_q_all = <<>>
    /\ position = <<>>
    /\ adjustment = <<>>
    /\ assign = <<>>
    /\ budget_sheet_C = <<>>
    /\ edits = 0
    /\ progress_calls = <<>>
    /\ df_xml = <<>>
    /\ target_quarter = None
    /\ error = None
    /\ InitServer
    /\ InitLimiter

report == <<df_quarter, built, filled, sheets, cells>>

\* load_csv_projects and load_csv_budget_data
LoadBudgetData ==
    /\ pc = "csv"
    /\ df_csv' = load_csv_projects(csv_master)
    /\ df_budget' = load_csv_budget_data(csv_master).df_budget
    /\ milestone_parent_map' =
           load_csv_budget_data(csv_master).milestone_parent_map
    /\ progress_calls' = progress_calls \o <<5, 8>>
    /\ pc' = "xml"
    /\ UNCHANGED <<csv_master, report, months, intake, web>>

\* load_xml_times; its ValueError ends the run
LoadXmlTimes ==
    /\ pc = "xml"
    /\ df_xml' = load_xml_times(xml_rows).df
    /\ error' = load_xml_times(xml_rows).error
    /\ progress_calls' = progress_calls \o <<10>>
    /\ pc' = IF load_xml_times(xml_rows).error = None THEN "quarter"
             ELSE "no_data"
    /\ UNCHANGED <<csv_master, report, loaded, xml_rows, requested_quarter,
                   target_quarter, web>>

\* determine_quarter; its ValueError ends the run
DetermineQuarter ==
    /\ pc = "quarter"
    /\ LET selection == determine_quarter(df_xml, requested_quarter)
       IN /\ target_quarter' = selection.period
          /\ months' = selection.months
          /\ error' = selection.error
          /\ pc' = IF selection.error = None THEN "selected"
                   ELSE "no_quarter"
          /\ progress_calls' =
                 IF selection.error = None THEN progress_calls \o <<15>>
                 ELSE progress_calls
    /\ UNCHANGED <<csv_master, report, df_csv, df_budget,
                   milestone_parent_map, xml_rows, requested_quarter,
                   df_xml, web>>

NextIntake ==
    \/ LoadBudgetData
    \/ LoadXmlTimes
    \/ DetermineQuarter

SpecIntake == InitIntake /\ [][NextIntake]_vars

\* the sub-item rows of the billed row idx: the package rows after it, up
\* to the next billed row
SubItemsOf(csv, idx) ==
    {j \in (idx + 1)..Len(csv) :
        /\ csv[j].Arbeitspaket # <<>>
        /\ csv[j].Arbeitspaket # <<"-">>
        /\ \A k \in (idx + 1)..j : csv[k].Honorarbereich # "X"}

\* C21: the budget hours of every record emitted for a billed parent row
\* are the sum of the budgeted hours of the sub-item rows between that
\* row and the next billed row, never the parent row's own hours.
C21_BudgetHoursFromSubItems ==
    pc \in {"xml", "quarter", "selected", "no_data", "no_quarter"} =>
        \A i \in 1..Len(df_budget) :
            \A idx \in 1..Len(csv_master) :
                (/\ csv_master[idx].Honorarbereich = "X"
                 /\ csv_master[idx].Arbeitspaket = df_budget[i].Obermeilenstein
                 /\ csv_master[idx].Projekte = df_budget[i].Projekt)
                => df_budget[i].Sollstunden =
                       SumOver(SubItemsOf(csv_master, idx),
                               [j \in 1..Len(csv_master) |->
                                   csv_master[j].SollstundenBudget])

\* a row of the export is complete when staff name, work-package name and
\* date are all there and not empty
CompleteRow(entry) ==
    /\ entry.staff_name \notin {None, <<>>}
    /\ entry.work_package_name \notin {None, <<>>}
    /\ entry.date.form \notin {"absent", "empty"}

\* C22: load_xml_times keeps exactly the rows whose staff name,
\* work-package name and date are all present and non-empty, and raises
\* the no-data error when no row qualifies.
C22_KeepsCompleteRows ==
    pc \in {"quarter", "selected", "no_data", "no_quarter"} =>
        LET complete == SelectSeq(xml_rows, CompleteRow)
        IN /\ Len(df_xml) = Len(complete)
           /\ \A i \in 1..Len(df_xml) :
                 /\ df_xml[i].staff_name = complete[i].staff_name
                 /\ df_xml[i].work_package_name =
                        complete[i].work_package_name
                 /\ df_xml[i].date = complete[i].date
           /\ (complete = <<>>) <=> (error = NoDataError /\ pc = "no_data")

\* the months and quarters in which the kept entries are dated
EntryPeriods ==
    {<<df_xml[i].date.year, MonthNumbers[df_xml[i].date.mon]>> :
        i \in {k \in 1..Len(df_xml) : df_xml[k].date.form = "d Mon yyyy"}}
EntryQuarters == {<<p[1], (p[2] + 2) \div 3>> : p \in EntryPeriods}
Asked == requested_quarter.form \in {"Qn-yyyy", "yyyyQn"}
AskedQuarter == <<requested_quarter.year, requested_quarter.q>>

\* C23: a requested quarter that does not occur in the entries gives an
\* error and no selection; a requested quarter that occurs is selected
\* whatever other quarters exist; without a request the latest quarter
\* present is selected; the months returned are exactly the months of the
\* selected quarter that occur in the entries, in ascending order.
C23_QuarterSelection ==
    pc \in {"selected", "no_quarter"} =>
        /\ (Asked /\ AskedQuarter \notin EntryQuarters) =>
              (pc = "no_quarter" /\ error # None /\ target_quarter = None
               /\ months = <<>>)
        /\ (Asked /\ AskedQuarter \in EntryQuarters) =>
              (pc = "selected" /\ target_quarter = AskedQuarter)
        /\ (requested_quarter = NoRequest /\ EntryQuarters # {}) =>
              (/\ pc = "selected"
               /\ target_quarter \in EntryQuarters
               /\ \A q \in EntryQuarters :
                     \/ q[1] < target_quarter[1]
                     \/ (q[1] = target_quarter[1] /\ q[2] <= target_quarter[2]))
        /\ pc = "selected" =>
              /\ SeqToSet(months) =
                    {p \in EntryPeriods :
                        <<p[1], (p[2] + 2) \div 3>> = target_quarter}
              /\ \A i, j \in 1..Len(months) :
                    i < j => months[i][2] < months[j][2]

\* entries in two months of the latest quarter and in an earlier quarter,
\* no quarter requested
C23_Witness ==
    /\ pc = "selected"
    /\ requested_quarter = NoRequest
    /\ Cardinality(EntryQuarters) > 1
    /\ Len(months) > 1
    /\ C23_QuarterSelection

\* ------------------------------------------------------- the job system
\* server.py: create_job, the worker task, job_download and delete_job on
\* one event loop. A coroutine may be suspended where it awaits: the
\* worker at job_queue.get() and at queue_lock, delete_job at queue_lock.
\* generate_quarterly_report is called without await, so while it runs
\* the loop serves no request. queue_lock is never held across an await
\* that suspends, so it is free whenever a coroutine asks for it.

\* what the job system leaves alone
others == <<inputs, pc, progress_calls, loaded, report, intake, limiter>>

\* job ids are handed out in the order of creation
JobIds == 1..MaxJobs

Job(status, result_path) == [status |-> status, result_path |-> result_path]
ResultPath(job_id) == <<job_id, "report.xlsm">>

LoopFree_Always == TRUE

\* the event loop is free to run a request handler
LoopFree == worker_task.at # "generate"

\* POST /api/jobs: the uploads are saved in the job directory, the job is
\* stored and queued
create_job ==
    /\ LoopFree
    /\ Len(jobs) < MaxJobs
    /\ LET job_id == Len(jobs) + 1
       IN /\ jobs' = Append(jobs, Job("queued", None))
          /\ output_dir' = Append(output_dir, "inputs")
          /\ job_store' = job_store \cup {job_id}
          /\ pending_jobs' = Append(pending_jobs, job_id)
          /\ job_queue' = Append(job_queue, job_id)
          /\ response' = <<"create_job", job_id, 200>>
    /\ UNCHANGED <<others, worker_task, deleting, generated>>

\* worker: job = await job_queue.get()
WorkerGet ==
    /\ worker_task.at = "get"
    /\ job_queue # <<>>
    /\ worker_task' = [at |-> "lock", job |-> Head(job_queue)]
    /\ job_queue' = Tail(job_queue)
    /\ UNCHANGED <<others, jobs, job_store, pending_jobs, output_dir, deleting,
                   response, generated>>

\* worker: under queue_lock the job leaves pending_jobs if it heads it
WorkerDequeue ==
    /\ worker_task.at = "lock"
    /\ pending_jobs' =
          IF pending_jobs # <<>> /\ Head(pending_jobs) = worker_task.job
          THEN Tail(pending_jobs) ELSE pending_jobs
    /\ worker_task' = [worker_task EXCEPT !.at = "start"]
    /\ UNCHANGED <<others, jobs, job_store, job_queue, output_dir, deleting,
                   response, generated>>

\* worker: the status becomes processing and generate_quarterly_report is
\* called
WorkerStart ==
    /\ worker_task.at = "start"
    /\ jobs' = [jobs EXCEPT ![worker_task.job].status = "processing"]
    /\ generated' = Append(generated, worker_task.job)
    /\ worker_task' = [worker_task EXCEPT !.at = "generate"]
    /\ UNCHANGED <<others, job_store, pending_jobs, job_queue, output_dir, deleting,
                   response>>

\* worker: generate_quarterly_report returns the path of the workbook it
\* saved, or raises: before it writes, when the input files are gone or
\* unusable, or while it writes
WorkerFinish ==
    /\ worker_task.at = "generate"
    /\ LET job_id == worker_task.job
       IN \E outcome \in {"saved", "raised", "raised_saving"} :
            /\ outcome # "raised" => output_dir[job_id] = "inputs"
            /\ jobs' = [jobs EXCEPT ![job_id] =
                          IF outcome = "saved"
                          THEN Job("finished", ResultPath(job_id))
                          ELSE Job("failed", None)]
            /\ output_dir' = [output_dir EXCEPT ![job_id] =
                                IF outcome = "saved" THEN "report"
                                ELSE IF outcome = "raised_saving"
                                  THEN "partial" ELSE @]
    /\ worker_task' = [at |-> "get", job |-> NoJob]
    /\ UNCHANGED <<others, job_store, pending_jobs, job_queue, deleting, response,
                   generated>>

DownloadStatus_Existing(job_id) == IF job_id \notin job_store THEN 404 ELSE 200
\* the status code of GET /api/jobs/{job_id}/download
DownloadStatus(job_id) ==
    IF job_id \notin job_store THEN 404
    ELSE IF jobs[job_id].status # "finished"
            \/ jobs[job_id].result_path = None THEN 409
    ELSE 200

job_download ==
    /\ LoopFree
    /\ \E job_id \in JobIds :
          response' = <<"job_download", job_id, DownloadStatus(job_id)>>
    /\ UNCHANGED <<others, jobs, job_store, pending_jobs, job_queue, worker_task,
                   output_dir, deleting, generated>>

\* DELETE /api/jobs/{job_id} up to queue_lock: unknown and processing
\* jobs are refused
DeleteCheck ==
    /\ LoopFree
    /\ \E job_id \in JobIds :
          IF job_id \notin job_store
          THEN /\ response' = <<"delete_job", job_id, 404>>
               /\ UNCHANGED deleting
          ELSE IF jobs[job_id].status = "processing"
          THEN /\ response' = <<"delete_job", job_id, 409>>
               /\ UNCHANGED deleting
          ELSE /\ deleting' = deleting \cup {job_id}
               /\ UNCHANGED response
    /\ UNCHANGED <<others, jobs, job_store, pending_jobs, job_queue, worker_task,
                   output_dir, generated>>

\* delete_job from queue_lock on: the id leaves pending_jobs and job_store
\* and the job directory is removed
DeleteRemove ==
    /\ LoopFree
    /\ \E job_id \in deleting :
          /\ pending_jobs' = SelectSeq(pending_jobs, LAMBDA x : x # job_id)
          /\ job_store' = job_store \ {job_id}
          /\ output_dir' = [output_dir EXCEPT ![job_id] = "removed"]
          /\ deleting' = deleting \ {job_id}
          /\ response' = <<"delete_job", job_id, 200>>
    /\ UNCHANGED <<others, jobs, job_queue, worker_task, generated>>

InitJobs ==
    /\ csv_master = Master1
    /\ df_quarter = <<>>
    /\ pc = "idle"
    /\ df_csv = <<>>
    /\ df_budget = <<>>
    /\ milestone_parent_map = {}
    /\ months = <<>>
    /\ built = <<>>
    /\ filled = <<>>
    /\ mrow = <<>>
    /\ qrow = <<>>
    /\ revenue_cells_by_key = <<>>
    /\ revenue_cells_by_key_q_all = <<>>
    /\ position = <<>>
    /\ adjustment = <<>>
    /\ assign = <<>>
    /\ budget_sheet_C = <<>>
    /\ edits = 0
    /\ progress_calls = <<>>
    /\ IdleIntake
    /\ InitServer
    /\ InitLimiter

NextJobs ==
    \/ create_job
    \/ WorkerGet
    \/ WorkerDequeue
    \/ WorkerStart
    \/ WorkerFinish
    \/ job_download
    \/ DeleteCheck
    \/ DeleteRemove

SpecJobs == InitJobs /\ [][NextJobs]_vars

\* the step is the answer of the handler to a request for job_id
Answers(handler, job_id) ==
    /\ response' # response
    /\ response'[1] = handler
    /\ response'[2] = job_id

\* C24: a download is answered 200 only for a stored job whose status is
\* finished and whose result path is set, and then the job directory
\* holds the complete workbook; a queued, processing or failed job is
\* answered 409 and an unknown id 404.
C24_DownloadOnlyFinished ==
    [][\A job_id \in JobIds :
          Answers("job_download", job_id) =>
            /\ response'[3] = 200 <=>
                  (/\ job_id \in job_store
                   /\ jobs[job_id].status = "finished"
                   /\ jobs[job_id].result_path # None)
            /\ response'[3] = 200 => output_dir[job_id] = "report"
            /\ response'[3] = 404 <=> job_id \notin job_store
            /\ (/\ job_id \in job_store
                /\ jobs[job_id].status \in {"queued", "processing", "failed"})
               => response'[3] = 409]_vars

\* the download of a failed job that left a partly written workbook was
\* refused
C24_Witness ==
    \E job_id \in job_store :
        /\ response = <<"job_download", job_id, 409>>
        /\ jobs[job_id].status = "failed"
        /\ output_dir[job_id] = "partial"

\* C25: no step removes the store entry or the directory of a job whose
\* status is processing; a delete answered 200 leaves the job in neither
\* job_store nor pending_jobs; a delete of an unknown id is answered 404
\* and changes nothing.
C25_DeleteSparesProcessing ==
    [][\A job_id \in JobIds :
          /\ (\/ (job_id \in job_store /\ job_id \notin job_store')
              \/ (/\ job_id \in DOMAIN output_dir
                  /\ output_dir[job_id] # "removed"
                  /\ output_dir'[job_id] = "removed"))
             => jobs[job_id].status # "processing"
          /\ (Answers("delete_job", job_id) /\ response'[3] = 200)
             => (/\ job_id \notin job_store'
                 /\ job_id \notin SeqToSet(pending_jobs')
                 /\ jobs[job_id].status \in {"queued", "finished", "failed"})
          /\ (Answers("delete_job", job_id) /\ job_id \notin job_store)
             => (/\ response'[3] = 404
                 /\ UNCHANGED <<jobs, job_store, pending_jobs, job_queue,
                                output_dir, deleting>>)]_vars

\* a delete request has passed its check and waits for queue_lock while
\* the worker processes that job: the job is still stored, with its files
C25_Witness ==
    \E job_id \in deleting :
        /\ jobs[job_id].status = "processing"
        /\ worker_task.job = job_id
        /\ job_id \in job_store
        /\ output_dir[job_id] = "inputs"

\* C30: the worker hands to generate_quarterly_report only jobs that
\* job_store still holds, so never a job deleted while it was queued, and
\* it starts the jobs in the order of their submission.
C30_RunsOnlyStoredJobs ==
    [][generated' # generated =>
          /\ worker_task.job \in job_store
          /\ \A i, k \in 1..Len(generated') :
                i < k => generated'[i] < generated'[k]]_vars

\* ------------------------------------------------- the admin rate limiter
\* server.py: _require_admin, the dependency of every /admin route, with
\* ADMIN_PASSWORD configured
_RATE_LIMIT == 5
_RATE_WINDOW == 60

Ips == {"10.0.0.1", "10.0.0.2"}

\* time passes in steps of half a window, up to a window and a half
TickSeconds == _RATE_WINDOW \div 2
MaxTime == 3 * TickSeconds

\* window = _admin_rate.setdefault(ip, deque())
Window(ip) == IF ip \in DOMAIN _admin_rate THEN _admin_rate[ip] ELSE <<>>

\* while window and now - window[0] > _RATE_WINDOW: window.popleft()
RECURSIVE Purge(_, _)
Purge(window, now) ==
    IF window # <<>> /\ now - Head(window) > _RATE_WINDOW
    THEN Purge(Tail(window), now) ELSE window

RateLimited_Above(window) == Len(window) > _RATE_LIMIT
RateLimited(window) == Len(window) >= _RATE_LIMIT

\* the number of admin requests answered so far
Requests == IF response = None THEN 0 ELSE response[4]

\* what _require_admin leaves alone
beside == <<inputs, pc, progress_calls, loaded, report, intake, jobs,
            job_store, pending_jobs, job_queue, worker_task, output_dir,
            deleting, generated>>

\* a request to an admin route from ip, with or without the right
\* credentials; the exchange is kept as <<handler, ip, status, number of
\* the request, credentials right>>
_require_admin ==
    /\ Requests < MaxRequests
    /\ \E ip \in Ips, credentials_ok \in BOOLEAN :
         LET window == Purge(Window(ip), monotonic)
             status == IF RateLimited(window) THEN 429
                       ELSE IF ~credentials_ok THEN 401 ELSE 200
             after == IF status = 401 THEN Append(window, monotonic)
                      ELSE window
         IN /\ _admin_rate' =
                  [i \in DOMAIN _admin_rate \cup {ip} |->
                      IF i = ip THEN after ELSE _admin_rate[i]]
            /\ response' = <<"_require_admin", ip, status, Requests + 1,
                             credentials_ok>>
    /\ UNCHANGED <<beside, monotonic>>

\* time.monotonic() moves on
Tick ==
    /\ monotonic < MaxTime
    /\ monotonic' = monotonic + TickSeconds
    /\ UNCHANGED <<beside, _admin_rate, response>>

NextAdmin ==
    \/ _require_admin
    \/ Tick

SpecAdmin == InitJobs /\ [][NextAdmin]_vars

\* the failed logins of ip recorded within the last _RATE_WINDOW seconds
RecentFailures(ip) ==
    {i \in 1..Len(Window(ip)) : monotonic - Window(ip)[i] <= _RATE_WINDOW}

InitNames ==
    /\ csv_master = Master1
    /\ \E a1 \in 1..MaxHours, b1 \in 1..MaxHours, a2 \in 0..1, b2 \in 0..1,
          c1 \in 0..1 :
            df_quarter = Entries(<<Proj1, MsHourly>>,
                                 {<<LongNames[1], 1, a1>>, <<LongNames[2], 1, b1>>,
                                  <<LongNames[1], 2, a2>>, <<LongNames[2], 2, b2>>,
                                  <<"Anna", 1, c1>>})
    /\ pc = "load"
    /\ df_csv = <<>>
    /\ df_budget = <<>>
    /\ milestone_parent_map = {}
    /\ months = <<>>
    /\ built = <<>>
    /\ filled = <<>>
    /\ mrow = <<>>
    /\ qrow = <<>>
    /\ revenue_cells_by_key = <<>>
    /\ revenue_cells_by_key_q_all = <<>>
    /\ position = <<>>
    /\ adjustment = <<>>
    /\ assign = <<>>
    /\ budget_sheet_C = <<>>
    /\ edits = 0
    /\ progress_calls = <<>>
    /\ IdleIntake
    /\ InitServer
    /\ InitLimiter

SpecNames == InitNames /\ [][NextRealloc]_vars

\* the monthly data rows booked on the key of row s
RowsAtKey(s) ==
    {r \in DOMAIN mrow : <<r[2], r[3], r[4]>> = <<s[2], s[3], s[4]>>}

\* C27: the cross-sheet formulas are written only in a second pass after
\* every employee's sheet is built; once the pass is over, every monthly
\* data row holds its 'Von anderen' formula (comparing the colleagues'
\* 'Zuordnen an' cells of the same work package and month with the row's
\* own employee) and its cumulative-revenue formula, which references the
\* revenue cell of every row of the key, the own one included, exactly
\* once; no row keeps its placeholder.
C27_SecondPassResolvesAll ==
    /\ (\E s \in DOMAIN mrow : mrow[s].K_filled \/ mrow[s].P_filled)
          => Len(built) = Len(employees)
    /\ pc \in {"save", "done"} =>
          \A s \in DOMAIN mrow :
              /\ mrow[s].K_filled /\ mrow[s].P_filled
              /\ mrow[s].K_to = s[1]
              /\ mrow[s].K = RowsAtKey(s) \ {s}
              /\ Len(mrow[s].P) = Cardinality(RowsAtKey(s))
              /\ SeqToSet(mrow[s].P) = RowsAtKey(s)

\* the employees with a sheet that has a section of the month
SectionEmployees(month) == {s[1] : s \in {t \in MRows : t[4] = month}}

\* C28: reallocation conserves bonus hours. When the adjustment cell of a
\* row with hours h of employee A, whose target cell names a colleague B
\* booked on the same key, is set from 0 to a < 0, A's monthly
\* bonus-eligible total falls by exactly min(h, -a), B's monthly 'Gesamt
\* Bonus Stunden' rises by the same amount, and the sum of 'Gesamt Bonus
\* Stunden' over all employees of the month is unchanged.
C28_ReallocationConserves ==
    [][\A r \in MRows :
          LET A == r[1]
              B == assign[r]
              month == r[4]
              moved == Min2(df_quarter[r], -(adjustment[r]'))
          IN (/\ pc = "done" /\ pc' = "done"
              /\ adjustment[r] = 0 /\ adjustment[r]' < 0
              /\ <<B, r[2], r[3], r[4]>> \in MRows /\ B # A) =>
                /\ BonusTotalCell(A, month, mrow[r].special)'
                      = BonusTotalCell(A, month, mrow[r].special) - moved
                /\ GesamtBonusCell(B, month)' = GesamtBonusCell(B, month) + moved
                /\ SumOver(SectionEmployees(month),
                           [e \in SectionEmployees(month) |->
                               GesamtBonusCell(e, month)])'
                      = SumOver(SectionEmployees(month),
                                [e \in SectionEmployees(month) |->
                                    GesamtBonusCell(e, month)])
      ]_vars

\* the hours the revenue formula of a monthly row bills:
\* N(F{row})+N(K{row}), the row's own hours and the hours received
RevenueBasis(s) == CellF(s) + CellK(s)

\* the hours the revenue formula of a quarterly row bills: N(F)+N(K) of
\* the quarterly row, whose F already sums the monthly F, I and K cells
QRevenueBasis(q) == QCellF(q) + QCellK(q)

\* C29: reallocation does not create billable hours. Whatever the
\* adjustment and target cells hold, the hours billed by the revenue
\* formulas of all employees' monthly rows of a key add up to the hours
\* logged on the key, and likewise for the quarterly rows of a project and
\* milestone: a transferred hour is billed once, by its recipient.
C29_NoNewBillableHours ==
    pc = "done" =>
        /\ \A s \in MRows :
              SumOver(RowsAtKey(s), [r \in RowsAtKey(s) |-> RevenueBasis(r)])
                  = SumOver(RowsAtKey(s), [r \in RowsAtKey(s) |-> df_quarter[r]])
        /\ \A q \in QRows :
              LET rows == {u \in QRows : <<u[2], u[3]>> = <<q[2], q[3]>>}
              IN SumOver(rows, [u \in rows |-> QRevenueBasis(u)])
                    = SumOver(rows, [u \in rows |->
                                        quarter_hours(u[1], u[2], u[3])])
====
